---- MODULE Spec2Model ----
(***************************************************************************)
(* Model of equirec2perspec: the Equirectangular class and its projection  *)
(* pipeline (Equirec2Perspec.py), the helper components                    *)
(* (perspective_helpers.py) and the global profiling statistics            *)
(* (profiling.py).                                                         *)
(*                                                                         *)
(* Numbers.  The pipeline computes in IEEE binary floating point.  The     *)
(* model computes in binary floating point with a 24 bit significand (the  *)
(* precision of numpy.float32, in which K, K_inv and the rotation matrices *)
(* are stored): a number is [k |-> "num", m |-> m, e |-> e], standing for  *)
(* m * 2^e with 2^23 <= |m| < 2^24 (or m = 0), or an infinity              *)
(* [k |-> "inf", m |-> +-1] or not-a-number [k |-> "nan"].  Every          *)
(* operation rounds to nearest, ties to even.                              *)
(***************************************************************************)
EXTENDS Integers, Sequences, FiniteSets, TLC

\* ------------------------------------------------------------------------
\* Floating point arithmetic (numpy / IEEE 754 binary32 semantics)
\* ------------------------------------------------------------------------

Pow2Tab ==
  << 1, 2, 4, 8, 16, 32, 64, 128, 256, 512, 1024, 2048, 4096, 8192, 16384,
     32768, 65536, 131072, 262144, 524288, 1048576, 2097152, 4194304,
     8388608, 16777216, 33554432, 67108864, 134217728, 268435456,
     536870912, 1073741824 >>

Pow2(i) == Pow2Tab[i + 1]

Abs(x) == IF x < 0 THEN -x ELSE x

Sgn(x) == IF x < 0 THEN -1 ELSE 1

BitLen4Tab == << 0, 1, 2, 2, 3, 3, 3, 3, 4, 4, 4, 4, 4, 4, 4, 4 >>

BitLen8(n) ==
  IF n < 16 THEN BitLen4Tab[n + 1] ELSE 4 + BitLen4Tab[(n \div 16) + 1]

\* number of significant bits of 0 <= n < 2^31
BitLen(n) ==
  IF n < 65536
  THEN (IF n < 256 THEN BitLen8(n) ELSE 8 + BitLen8(n \div 256))
  ELSE (IF n < 16777216 THEN 16 + BitLen8(n \div 65536)
                        ELSE 24 + BitLen8(n \div 16777216))

\* n / 2^s rounded to nearest, ties to even (n >= 0, 0 <= s <= 30)
RoundShift(n, s) ==
  IF s = 0 THEN n
  ELSE LET q == n \div Pow2(s)
           r == n % Pow2(s)
           h == Pow2(s - 1)
       IN  IF r > h \/ (r = h /\ q % 2 = 1) THEN q + 1 ELSE q

FZero == [k |-> "num", m |-> 0, e |-> 0]

FNaN == [k |-> "nan", m |-> 0, e |-> 0]

FInf(s) == [k |-> "inf", m |-> s, e |-> 0]

\* the binary32 number nearest to m * 2^e, |m| < 2^31: overflow gives an
\* infinity, underflow a subnormal number or zero
MkF(m, e) ==
  LET \* sign s, significand q (2^23 <= q < 2^24), exponent x
      Pack(s, q, x) ==
        IF x > 104 THEN FInf(s)
        ELSE IF x >= -149 THEN [k |-> "num", m |-> s * q, e |-> x]
        ELSE IF -149 - x > 25 THEN FZero
        ELSE LET Sub(d) == IF d = 0 THEN FZero
                           ELSE [k |-> "num", m |-> s * d, e |-> -149]
             IN  Sub(RoundShift(q, -149 - x))
      \* q0 is the magnitude rounded to 24 bits, which may carry to 2^24
      Carry(s, q0, x) ==
        Pack(s, IF q0 = 16777216 THEN 8388608 ELSE q0,
             IF q0 = 16777216 THEN x + 1 ELSE x)
      \* a is the magnitude, b the number of its bits
      Norm(s, a, b) ==
        Carry(s, IF b > 24 THEN RoundShift(a, b - 24) ELSE a * Pow2(24 - b),
              e + (b - 24))
  IN  IF m = 0 THEN FZero ELSE Norm(Sgn(m), Abs(m), BitLen(Abs(m)))

FromInt(n) == MkF(n, 0)

FOne == [k |-> "num", m |-> 8388608, e |-> -23]

IsFinite(a) == a.k = "num"

FSign(a) == IF a.m < 0 THEN -1 ELSE IF a.m > 0 THEN 1 ELSE 0

FNeg(a) == [a EXCEPT !.m = -a.m]

FAbs(a) == [a EXCEPT !.m = Abs(a.m)]

\* a + b of two finite numbers: the smaller operand is shifted with three
\* extra bits (guard, round, sticky), the sum rounded once
AddNum(a, b) ==
  IF a.m = 0 THEN b
  ELSE IF b.m = 0 THEN a
  ELSE LET hi == IF a.e >= b.e THEN a ELSE b
           lo == IF a.e >= b.e THEN b ELSE a
           d  == hi.e - lo.e
       IN  IF d > 27 THEN hi
           ELSE LET l8 == Abs(lo.m) * 8
                    sh == l8 \div Pow2(d)
                    st == IF l8 % Pow2(d) # 0 /\ sh % 2 = 0 THEN 1 ELSE 0
                IN  MkF(hi.m * 8 + Sgn(lo.m) * (sh + st), hi.e - 3)

FAdd(a, b) ==
  IF a.k = "nan" \/ b.k = "nan" THEN FNaN
  ELSE IF a.k = "inf" THEN (IF b.k = "inf" /\ b.m # a.m THEN FNaN ELSE a)
  ELSE IF b.k = "inf" THEN b
  ELSE AddNum(a, b)

FSub(a, b) == FAdd(a, FNeg(b))

\* a * b of two finite numbers: the exact 48 bit product of the
\* significands, ph * 2^24 + pl, rounded once (one sticky bit stands for
\* the bits of pl that are cut)
MulNum(a, b) ==
  IF a.m = 0 \/ b.m = 0 THEN FZero
  ELSE LET x   == Abs(a.m)
           y   == Abs(b.m)
           xh  == x \div 4096
           xl  == x % 4096
           yh  == y \div 4096
           yl  == y % 4096
           mid == xh * yl + xl * yh
           low == (mid % 4096) * 4096 + xl * yl
           ph  == xh * yh + (mid \div 4096) + (low \div 16777216)
           pl  == low % 16777216
           st  == IF pl % 262144 # 0 THEN 1 ELSE 0
       IN  MkF(Sgn(a.m) * Sgn(b.m) * (ph * 128 + (pl \div 262144) * 2 + st),
               a.e + b.e + 17)

FMul(a, b) ==
  IF a.k = "nan" \/ b.k = "nan" THEN FNaN
  ELSE IF a.k = "inf" \/ b.k = "inf"
       THEN (IF a.m = 0 \/ b.m = 0 THEN FNaN ELSE FInf(Sgn(a.m) * Sgn(b.m)))
  ELSE MulNum(a, b)

\* long division by 7 bits a step: <<quotient, remainder>> of r * 128^steps
\* by y, for 0 <= r < y, with the quotient digits appended to q
RECURSIVE LongDiv(_, _, _, _)
LongDiv(r, y, q, steps) ==
  IF steps = 0 THEN << q, r >>
  ELSE LongDiv((r * 128) % y, y, q * 128 + ((r * 128) \div y), steps - 1)

\* a / b of two finite numbers, b # 0: 28 quotient bits by long division in
\* four steps of 7 bits, a sticky bit for the remainder, rounded once
DivNum(a, b) ==
  LET Round(s, qr, x) ==
        MkF(s * (qr[1] * 2 + (IF qr[2] # 0 THEN 1 ELSE 0)), x)
      Quot(na, nb) ==
        Round(Sgn(a.m) * Sgn(b.m), LongDiv(na.m, nb.m, 0, 4),
              na.e - nb.e - 29)
  IN  IF a.m = 0 THEN FZero
      ELSE Quot(MkF(Abs(a.m), a.e), MkF(Abs(b.m), b.e))

FDiv(a, b) ==
  IF a.k = "nan" \/ b.k = "nan" THEN FNaN
  ELSE IF a.k = "inf"
       THEN (IF b.k = "inf" THEN FNaN
             ELSE FInf(a.m * (IF b.m < 0 THEN -1 ELSE 1)))
  ELSE IF b.k = "inf" THEN FZero
  ELSE IF b.m = 0
       THEN (IF a.m = 0 THEN FNaN ELSE FInf(Sgn(a.m)))
  ELSE DivNum(a, b)

\* the square root of n * 4^j digit by digit (two radicand bits a step):
\* <<root, remainder>> after the pairs of n and j zero pairs
RECURSIVE SqrtBits(_, _, _, _)
SqrtBits(hi, pairs, root, rem) ==
  IF pairs = 0 THEN << root, rem >>
  ELSE LET p  == (hi \div Pow2(2 * (pairs - 1))) % 4
           r  == rem * 4 + p
           t  == root * 4 + 1
       IN  IF r >= t THEN SqrtBits(hi, pairs - 1, root * 2 + 1, r - t)
                     ELSE SqrtBits(hi, pairs - 1, root * 2, r)

RECURSIVE SqrtZeros(_, _, _)
SqrtZeros(j, root, rem) ==
  IF j = 0 THEN << root, rem >>
  ELSE LET r == rem * 4
           t == root * 4 + 1
       IN  IF r >= t THEN SqrtZeros(j - 1, root * 2 + 1, r - t)
                     ELSE SqrtZeros(j - 1, root * 2, r)

\* numpy.sqrt: the correctly rounded square root (NaN of a negative number)
FSqrt(a) ==
  LET Round(s2, x) == MkF(s2[1] * 2 + (IF s2[2] # 0 THEN 1 ELSE 0), x)
      Zeros(s1, x) == Round(SqrtZeros(13, s1[1], s1[2]), x)
      \* an odd exponent is made even by doubling the significand
      Root(n) ==
        Zeros(SqrtBits(IF n.e % 2 # 0 THEN n.m * 2 ELSE n.m, 13, 0, 0),
              ((IF n.e % 2 # 0 THEN n.e - 1 ELSE n.e) \div 2) - 14)
  IN  IF a.k = "nan" THEN FNaN
      ELSE IF a.k = "inf" THEN (IF a.m > 0 THEN a ELSE FNaN)
      ELSE IF a.m < 0 THEN FNaN
      ELSE IF a.m = 0 THEN FZero
      ELSE Root(MkF(a.m, a.e))

FLt(a, b) == a.k # "nan" /\ b.k # "nan" /\ FSign(FSub(a, b)) < 0

FLe(a, b) == a.k # "nan" /\ b.k # "nan" /\ FSign(FSub(a, b)) <= 0

\* cvRound / numpy.rint: the integer nearest to a finite a, ties to even
FRound(a) ==
  IF a.e >= 0 THEN a.m * Pow2(a.e)
  ELSE IF -a.e > 30 THEN 0
  ELSE Sgn(a.m) * RoundShift(Abs(a.m), -a.e)

\* cvFloor: the largest integer <= a, for a finite a
FFloor(a) ==
  IF a.e >= 0 THEN a.m * Pow2(a.e)
  ELSE IF -a.e > 30 THEN (IF a.m < 0 THEN -1 ELSE 0)
  ELSE a.m \div Pow2(-a.e)

\* numpy.pi and its multiples, in binary32
FPi == [k |-> "num", m |-> 13176795, e |-> -22]

FTwoPi == [k |-> "num", m |-> 13176795, e |-> -21]

FHalfPi == [k |-> "num", m |-> 13176795, e |-> -23]

FHalf == [k |-> "num", m |-> 8388608, e |-> -24]

\* numpy.radians: degrees * pi / 180
Radians(deg) == FDiv(FMul(FromInt(deg), FPi), FromInt(180))

\* numpy.tan(0.5 * FOV / 180.0 * numpy.pi) for FOV = 1 .. 180 degrees, as
\* <<m, e>>.  The last entry is tan of the floating point number nearest to
\* pi/2, which is finite: 1.633e16.
TanTab ==
  <<
     <<9370403, -30>>, <<9371117, -29>>, <<14058460, -29>>, <<9373973, -28>>,
     <<11720145, -28>>, <<14068106, -28>>, <<16418216, -28>>, <<9385418, -27>>,
     <<10563164, -27>>, <<11742530, -27>>, <<12923697, -27>>, <<14106852, -27>>,
     <<15292178, -27>>, <<16479865, -27>>, <<8835050, -26>>, <<9431536, -26>>,
     <<10029487, -26>>, <<10629000, -26>>, <<11230172, -26>>, <<11833103, -26>>,
     <<12437893, -26>>, <<13044642, -26>>, <<13653453, -26>>, <<14264429, -26>>,
     <<14877677, -26>>, <<15493302, -26>>, <<16111413, -26>>, <<16732119, -26>>,
     <<8677766, -25>>, <<8990883, -25>>, <<9305468, -25>>, <<9621579, -25>>,
     <<9939276, -25>>, <<10258619, -25>>, <<10579672, -25>>, <<10902496, -25>>,
     <<11227156, -25>>, <<11553717, -25>>, <<11882248, -25>>, <<12212814, -25>>,
     <<12545488, -25>>, <<12880340, -25>>, <<13217442, -25>>, <<13556871, -25>>,
     <<13898701, -25>>, <<14243011, -25>>, <<14589882, -25>>, <<14939396, -25>>,
     <<15291636, -25>>, <<15646689, -25>>, <<16004643, -25>>, <<16365590, -25>>,
     <<16729623, -25>>, <<8548419, -24>>, <<8733666, -24>>, <<8920604, -24>>,
     <<9109285, -24>>, <<9299763, -24>>, <<9492092, -24>>, <<9686330, -24>>,
     <<9882535, -24>>, <<10080768, -24>>, <<10281091, -24>>, <<10483568, -24>>,
     <<10688265, -24>>, <<10895251, -24>>, <<11104597, -24>>, <<11316375, -24>>,
     <<11530661, -24>>, <<11747533, -24>>, <<11967072, -24>>, <<12189361, -24>>,
     <<12414487, -24>>, <<12642539, -24>>, <<12873611, -24>>, <<13107798, -24>>,
     <<13345200, -24>>, <<13585922, -24>>, <<13830070, -24>>, <<14077756, -24>>,
     <<14329096, -24>>, <<14584211, -24>>, <<14843227, -24>>, <<15106273, -24>>,
     <<15373486, -24>>, <<15645007, -24>>, <<15920984, -24>>, <<16201569, -24>>,
     <<16486924, -24>>, <<8388608, -23>>, <<8536310, -23>>, <<8686658, -23>>,
     <<8839748, -23>>, <<8995681, -23>>, <<9154559, -23>>, <<9316493, -23>>,
     <<9481597, -23>>, <<9649990, -23>>, <<9821798, -23>>, <<9997154, -23>>,
     <<10176195, -23>>, <<10359068, -23>>, <<10545926, -23>>, <<10736929, -23>>,
     <<10932247, -23>>, <<11132059, -23>>, <<11336553, -23>>, <<11545928, -23>>,
     <<11760395, -23>>, <<11980174, -23>>, <<12205500, -23>>, <<12436623, -23>>,
     <<12673804, -23>>, <<12917324, -23>>, <<13167477, -23>>, <<13424579, -23>>,
     <<13688964, -23>>, <<13960988, -23>>, <<14241030, -23>>, <<14529495, -23>>,
     <<14826814, -23>>, <<15133449, -23>>, <<15449894, -23>>, <<15776677, -23>>,
     <<16114366, -23>>, <<16463570, -23>>, <<8412472, -22>>, <<8599598, -22>>,
     <<8793541, -22>>, <<8994714, -22>>, <<9203560, -22>>, <<9420561, -22>>,
     <<9646239, -22>>, <<9881161, -22>>, <<10125946, -22>>, <<10381267, -22>>,
     <<10647861, -22>>, <<10926535, -22>>, <<11218176, -22>>, <<11523756, -22>>,
     <<11844349, -22>>, <<12181143, -22>>, <<12535453, -22>>, <<12908740, -22>>,
     <<13302633, -22>>, <<13718950, -22>>, <<14159733, -22>>, <<14627276, -22>>,
     <<15124172, -22>>, <<15653356, -22>>, <<16218170, -22>>, <<8411217, -21>>,
     <<8735267, -21>>, <<9083763, -21>>, <<9459641, -21>>, <<9866324, -21>>,
     <<10307831, -21>>, <<10788912, -21>>, <<11315220, -21>>, <<11893540, -21>>,
     <<12532086, -21>>, <<13240897, -21>>, <<14032372, -21>>, <<14922012, -21>>,
     <<15929451, -21>>, <<8539966, -20>>, <<9203233, -20>>, <<9976534, -20>>,
     <<10889878, -20>>, <<11985279, -20>>, <<13323421, -20>>, <<14995335, -20>>,
     <<8572033, -19>>, <<10004011, -19>>, <<12008169, -19>>, <<15013644, -19>>,
     <<10010875, -18>>, <<15018220, -18>>, <<15019364, -17>>, <<15209652, 30>>
  >>

\* sin and cos of the floating point number nearest to d degrees in
\* radians, d = 0 .. 180, as <<m, e>>
SinTab ==
  <<
     <<0, 0>>, <<9369689, -29>>, <<9368262, -28>>, <<14048827, -28>>,
     <<9362555, -27>>, <<11697845, -27>>, <<14029573, -27>>, <<16357027, -27>>,
     <<9339749, -26>>, <<10498140, -26>>, <<11653332, -26>>, <<12804975, -26>>,
     <<13952718, -26>>, <<15096209, -26>>, <<16235104, -26>>, <<8684526, -25>>,
     <<9248855, -25>>, <<9810366, -25>>, <<10368890, -25>>, <<10924254, -25>>,
     <<11476291, -25>>, <<12024833, -25>>, <<12569711, -25>>, <<13110761, -25>>,
     <<13647817, -25>>, <<14180716, -25>>, <<14709295, -25>>, <<15233394, -25>>,
     <<15752852, -25>>, <<16267511, -25>>, <<8388608, -24>>, <<8640905, -24>>,
     <<8890570, -24>>, <<9137527, -24>>, <<9381700, -24>>, <<9623016, -24>>,
     <<9861400, -24>>, <<10096780, -24>>, <<10329086, -24>>, <<10558244, -24>>,
     <<10784186, -24>>, <<11006844, -24>>, <<11226149, -24>>, <<11442034, -24>>,
     <<11654434, -24>>, <<11863283, -24>>, <<12068519, -24>>, <<12270079, -24>>,
     <<12467902, -24>>, <<12661925, -24>>, <<12852093, -24>>, <<13038346, -24>>,
     <<13220626, -24>>, <<13398881, -24>>, <<13573053, -24>>, <<13743091, -24>>,
     <<13908942, -24>>, <<14070558, -24>>, <<14227886, -24>>, <<14380881, -24>>,
     <<14529496, -24>>, <<14673684, -24>>, <<14813402, -24>>, <<14948609, -24>>,
     <<15079262, -24>>, <<15205322, -24>>, <<15326750, -24>>, <<15443509, -24>>,
     <<15555564, -24>>, <<15662880, -24>>, <<15765426, -24>>, <<15863169, -24>>,
     <<15956081, -24>>, <<16044132, -24>>, <<16127295, -24>>, <<16205546, -24>>,
     <<16278861, -24>>, <<16347217, -24>>, <<16410594, -24>>, <<16468971, -24>>,
     <<16522332, -24>>, <<16570661, -24>>, <<16613941, -24>>, <<16652161, -24>>,
     <<16685309, -24>>, <<16713374, -24>>, <<16736348, -24>>, <<16754223, -24>>,
     <<16766996, -24>>, <<16774661, -24>>, <<8388608, -23>>, <<16774661, -24>>,
     <<16766996, -24>>, <<16754223, -24>>, <<16736348, -24>>, <<16713374, -24>>,
     <<16685309, -24>>, <<16652161, -24>>, <<16613941, -24>>, <<16570661, -24>>,
     <<16522332, -24>>, <<16468971, -24>>, <<16410593, -24>>, <<16347217, -24>>,
     <<16278861, -24>>, <<16205546, -24>>, <<16127295, -24>>, <<16044131, -24>>,
     <<15956080, -24>>, <<15863170, -24>>, <<15765426, -24>>, <<15662881, -24>>,
     <<15555564, -24>>, <<15443509, -24>>, <<15326749, -24>>, <<15205321, -24>>,
     <<15079262, -24>>, <<14948608, -24>>, <<14813402, -24>>, <<14673684, -24>>,
     <<14529495, -24>>, <<14380881, -24>>, <<14227885, -24>>, <<14070557, -24>>,
     <<13908943, -24>>, <<13743090, -24>>, <<13573053, -24>>, <<13398880, -24>>,
     <<13220627, -24>>, <<13038347, -24>>, <<12852093, -24>>, <<12661926, -24>>,
     <<12467901, -24>>, <<12270079, -24>>, <<12068518, -24>>, <<11863283, -24>>,
     <<11654435, -24>>, <<11442033, -24>>, <<11226149, -24>>, <<11006843, -24>>,
     <<10784187, -24>>, <<10558246, -24>>, <<10329085, -24>>, <<10096782, -24>>,
     <<9861399, -24>>, <<9623016, -24>>, <<9381699, -24>>, <<9137527, -24>>,
     <<8890571, -24>>, <<8640904, -24>>, <<8388609, -24>>, <<16267509, -25>>,
     <<15752852, -25>>, <<15233396, -25>>, <<14709294, -25>>, <<14180718, -25>>,
     <<13647815, -25>>, <<13110762, -25>>, <<12569708, -25>>, <<12024832, -25>>,
     <<11476294, -25>>, <<10924253, -25>>, <<10368891, -25>>, <<9810363, -25>>,
     <<9248855, -25>>, <<8684529, -25>>, <<16235101, -26>>, <<15096214, -26>>,
     <<13952712, -26>>, <<12804976, -26>>, <<11653340, -26>>, <<10498138, -26>>,
     <<9339754, -26>>, <<16357018, -27>>, <<14029577, -27>>, <<11697832, -27>>,
     <<9362555, -27>>, <<14048851, -28>>, <<9368250, -28>>, <<9369717, -29>>,
     <<-12303662, -47>>
  >>

CosTab ==
  <<
     <<8388608, -23>>, <<16774661, -24>>, <<16766996, -24>>, <<16754223, -24>>,
     <<16736348, -24>>, <<16713374, -24>>, <<16685309, -24>>, <<16652161, -24>>,
     <<16613941, -24>>, <<16570661, -24>>, <<16522332, -24>>, <<16468971, -24>>,
     <<16410594, -24>>, <<16347217, -24>>, <<16278861, -24>>, <<16205546, -24>>,
     <<16127295, -24>>, <<16044132, -24>>, <<15956081, -24>>, <<15863169, -24>>,
     <<15765426, -24>>, <<15662880, -24>>, <<15555564, -24>>, <<15443509, -24>>,
     <<15326749, -24>>, <<15205321, -24>>, <<15079262, -24>>, <<14948609, -24>>,
     <<14813402, -24>>, <<14673684, -24>>, <<14529495, -24>>, <<14380881, -24>>,
     <<14227886, -24>>, <<14070557, -24>>, <<13908943, -24>>, <<13743091, -24>>,
     <<13573053, -24>>, <<13398881, -24>>, <<13220627, -24>>, <<13038345, -24>>,
     <<12852093, -24>>, <<12661926, -24>>, <<12467901, -24>>, <<12270079, -24>>,
     <<12068519, -24>>, <<11863283, -24>>, <<11654434, -24>>, <<11442034, -24>>,
     <<11226148, -24>>, <<11006844, -24>>, <<10784187, -24>>, <<10558244, -24>>,
     <<10329086, -24>>, <<10096781, -24>>, <<9861400, -24>>, <<9623016, -24>>,
     <<9381700, -24>>, <<9137526, -24>>, <<8890570, -24>>, <<8640905, -24>>,
     <<16777215, -25>>, <<16267510, -25>>, <<15752853, -25>>, <<15233394, -25>>,
     <<14709295, -25>>, <<14180715, -25>>, <<13647816, -25>>, <<13110759, -25>>,
     <<12569713, -25>>, <<12024834, -25>>, <<11476292, -25>>, <<10924254, -25>>,
     <<10368889, -25>>, <<9810365, -25>>, <<9248856, -25>>, <<8684527, -25>>,
     <<16235104, -26>>, <<15096209, -26>>, <<13952715, -26>>, <<12804971, -26>>,
     <<11653335, -26>>, <<10498141, -26>>, <<9339749, -26>>, <<16357024, -27>>,
     <<14029567, -27>>, <<11697854, -27>>, <<9362560, -27>>, <<14048831, -28>>,
     <<9368262, -28>>, <<9369677, -29>>, <<-12303662, -48>>, <<-9369660, -29>>,
     <<-9368253, -28>>, <<-14048822, -28>>, <<-9362556, -27>>, <<-11697849, -27>>,
     <<-14029579, -27>>, <<-16357019, -27>>, <<-9339747, -26>>, <<-10498138, -26>>,
     <<-11653333, -26>>, <<-12804977, -26>>, <<-13952721, -26>>, <<-15096206, -26>>,
     <<-16235102, -26>>, <<-8684526, -25>>, <<-9248855, -25>>, <<-9810368, -25>>,
     <<-10368891, -25>>, <<-10924253, -25>>, <<-11476291, -25>>, <<-12024833, -25>>,
     <<-12569712, -25>>, <<-13110762, -25>>, <<-13647819, -25>>, <<-14180718, -25>>,
     <<-14709294, -25>>, <<-15233397, -25>>, <<-15752852, -25>>, <<-16267509, -25>>,
     <<-8388609, -24>>, <<-8640904, -24>>, <<-8890571, -24>>, <<-9137527, -24>>,
     <<-9381699, -24>>, <<-9623016, -24>>, <<-9861399, -24>>, <<-10096782, -24>>,
     <<-10329085, -24>>, <<-10558243, -24>>, <<-10784187, -24>>, <<-11006843, -24>>,
     <<-11226150, -24>>, <<-11442033, -24>>, <<-11654435, -24>>, <<-11863283, -24>>,
     <<-12068518, -24>>, <<-12270080, -24>>, <<-12467901, -24>>, <<-12661927, -24>>,
     <<-12852093, -24>>, <<-13038344, -24>>, <<-13220627, -24>>, <<-13398880, -24>>,
     <<-13573054, -24>>, <<-13743091, -24>>, <<-13908943, -24>>, <<-14070557, -24>>,
     <<-14227885, -24>>, <<-14380881, -24>>, <<-14529495, -24>>, <<-14673685, -24>>,
     <<-14813402, -24>>, <<-14948608, -24>>, <<-15079262, -24>>, <<-15205321, -24>>,
     <<-15326750, -24>>, <<-15443509, -24>>, <<-15555565, -24>>, <<-15662881, -24>>,
     <<-15765426, -24>>, <<-15863170, -24>>, <<-15956080, -24>>, <<-16044132, -24>>,
     <<-16127295, -24>>, <<-16205546, -24>>, <<-16278861, -24>>, <<-16347217, -24>>,
     <<-16410594, -24>>, <<-16468971, -24>>, <<-16522332, -24>>, <<-16570661, -24>>,
     <<-16613941, -24>>, <<-16652161, -24>>, <<-16685309, -24>>, <<-16713374, -24>>,
     <<-16736348, -24>>, <<-16754223, -24>>, <<-16766996, -24>>, <<-16774661, -24>>,
     <<-8388608, -23>>
  >>

FOfPair(p) == IF p[1] = 0 THEN FZero ELSE [k |-> "num", m |-> p[1], e |-> p[2]]

\* the whole number of degrees nearest to an angle in radians
DegOf(theta) == FRound(FDiv(FMul(theta, FromInt(180)), FPi))

\* sin and cos of an angle 0 <= theta <= pi (radians)
FSin(theta) == FOfPair(SinTab[DegOf(theta) + 1])

FCos(theta) == FOfPair(CosTab[DegOf(theta) + 1])

\* atan(2^-i) * 2^28, i = 0 .. 28
AtanTab ==
  << 210828714, 124459457, 65760959, 33381290, 16755422, 8385879, 4193963,
     2097109, 1048571, 524287, 262144, 131072, 65536, 32768, 16384, 8192,
     4096, 2048, 1024, 512, 256, 128, 64, 32, 16, 8, 4, 2, 1 >>

\* the angle of the vector (x, y), x >= 0, y >= 0, in units of 2^-28 rad,
\* by rotating it onto the x axis in steps of atan(2^-i)
RECURSIVE Cordic(_, _, _, _)
Cordic(x, y, z, i) ==
  IF i > 28 \/ y = 0 THEN z
  ELSE IF y > 0
       THEN Cordic(x + (y \div Pow2(i)), y - (x \div Pow2(i)),
                   z + AtanTab[i + 1], i + 1)
       ELSE Cordic(x - (y \div Pow2(i)), y + (x \div Pow2(i)),
                   z - AtanTab[i + 1], i + 1)

\* |m| * 2^e as an integer in units of 2^(top - 29), where top is the
\* larger exponent of the two coordinates
ScaleTo(a, top) ==
  IF a.m = 0 \/ top - a.e > 30 THEN 0
  ELSE (Abs(a.m) * 32) \div Pow2(top - a.e)

\* numpy.arctan2(y, x): the angle of the point (x, y) in (-pi, pi]
FAtan2(y, x) ==
  LET \* the angle of (ix, iy) in the first quadrant
      Angle(ix, iy) ==
        IF iy = 0 THEN 0
        ELSE IF ix = 0 THEN 421657428
        ELSE Cordic(ix, iy, 0, 0)
      Quadrant(a) == IF x.m < 0 THEN 843314857 - a ELSE a
      Scaled(nx, ny, top) ==
        MkF(Sgn(y.m) * Quadrant(Angle(ScaleTo(nx, top), ScaleTo(ny, top))),
            -28)
      Top(nx, ny) ==
        Scaled(nx, ny,
               IF nx.m = 0 \/ (ny.m # 0 /\ ny.e > nx.e) THEN ny.e ELSE nx.e)
  IN  IF y.k = "nan" \/ x.k = "nan" THEN FNaN
      ELSE IF y.m = 0 /\ x.m >= 0 THEN FZero
      ELSE IF y.m = 0 THEN FPi
      ELSE IF x.m = 0 THEN (IF y.m > 0 THEN FHalfPi ELSE FNeg(FHalfPi))
      ELSE Top(IF x.k = "inf" THEN FOne
               ELSE IF y.k = "inf" THEN FZero ELSE MkF(Abs(x.m), x.e),
               IF y.k = "inf" THEN FOne
               ELSE IF x.k = "inf" THEN FZero ELSE MkF(Abs(y.m), y.e))

\* numpy.arcsin(y): NaN outside [-1, 1]
FAsin(y) ==
  IF y.k # "num" THEN FNaN
  ELSE IF FLt(FOne, FAbs(y)) THEN FNaN
  ELSE FAtan2(y, FSqrt(FMul(FSub(FOne, y), FAdd(FOne, y))))

\* ------------------------------------------------------------------------
\* Vectors and 3x3 matrices (numpy arrays of floats)
\* ------------------------------------------------------------------------

\* numpy dot product of two 3-vectors, summed left to right
Dot3(u, v) == FAdd(FAdd(FMul(u[1], v[1]), FMul(u[2], v[2])), FMul(u[3], v[3]))

MatVec(A, v) == << Dot3(A[1], v), Dot3(A[2], v), Dot3(A[3], v) >>

MatCol(A, j) == << A[1][j], A[2][j], A[3][j] >>

MatT(A) == << MatCol(A, 1), MatCol(A, 2), MatCol(A, 3) >>

\* A @ B
MatMul(A, B) ==
  [i \in 1..3 |-> [j \in 1..3 |-> Dot3(A[i], MatCol(B, j))]]

Eye3 ==
  << << FOne, FZero, FZero >>, << FZero, FOne, FZero >>,
     << FZero, FZero, FOne >> >>

Scale3(v, s) == << FMul(v[1], s), FMul(v[2], s), FMul(v[3], s) >>

\* determinant by cofactor expansion along the first row
Det3(A) ==
  FAdd(FSub(FMul(A[1][1], FSub(FMul(A[2][2], A[3][3]), FMul(A[2][3], A[3][2]))),
            FMul(A[1][2], FSub(FMul(A[2][1], A[3][3]), FMul(A[2][3], A[3][1])))),
       FMul(A[1][3], FSub(FMul(A[2][1], A[3][2]), FMul(A[2][2], A[3][1]))))

\* results and exceptions of a call
Ok(v) == [exc |-> "none", val |-> v]

Raise(e, text, got) == [exc |-> e, text |-> text, got |-> got]

\* one column of the inverse of an upper triangular U: U x = b by back
\* substitution (LAPACK gesv, as numpy.linalg.inv calls it)
SolveUpper(U, b) ==
  LET Row1(x3, x2) ==
        << FDiv(FSub(FSub(b[1], FMul(x3, U[1][3])), FMul(x2, U[1][2])),
                U[1][1]),
           x2, x3 >>
      Row2(x3) == Row1(x3, FDiv(FSub(b[2], FMul(x3, U[2][3])), U[2][2]))
  IN  Row2(FDiv(b[3], U[3][3]))

\* numpy.linalg.inv of an upper triangular matrix: LinAlgError (a
\* ValueError subclass) when a pivot is exactly zero
LinalgInv(U) ==
  IF \E i \in 1..3 : U[i][i].k = "num" /\ U[i][i].m = 0
  THEN Raise("LinAlgError", << "Singular matrix" >>, 0)
  ELSE Ok(MatT([j \in 1..3 |-> SolveUpper(U, Eye3[j])]))

\* ------------------------------------------------------------------------
\* perspective_helpers.py: the pipeline components
\* ------------------------------------------------------------------------

\* the checks with width looked at before height: a faulty variant
validate_perspective_paramsWidthFirst(FOV, THETA, PHI, height, width) ==
  IF ~(1 <= FOV /\ FOV <= 180)
  THEN Raise("ValueError",
             << "FOV", " must be between ", "1 and 180", " degrees, got: " >>,
             FOV)
  ELSE IF ~(-180 <= THETA /\ THETA <= 180)
  THEN Raise("ValueError",
             << "THETA", " must be between ", "-180 and 180",
                " degrees, got: " >>, THETA)
  ELSE IF ~(-90 <= PHI /\ PHI <= 90)
  THEN Raise("ValueError",
             << "PHI", " must be between ", "-90 and 90", " degrees, got: " >>,
             PHI)
  ELSE IF width <= 0
  THEN Raise("ValueError",
             << "width", " must be ", "greater than 0", ", got: " >>, width)
  ELSE IF height <= 0
  THEN Raise("ValueError",
             << "height", " must be ", "greater than 0", ", got: " >>, height)
  ELSE Ok("None")

\* validate_perspective_params: the first violated range, in the order
\* FOV, THETA, PHI, height, width
validate_perspective_params(FOV, THETA, PHI, height, width) ==
  IF ~(1 <= FOV /\ FOV <= 180)
  THEN Raise("ValueError",
             << "FOV", " must be between ", "1 and 180", " degrees, got: " >>,
             FOV)
  ELSE IF ~(-180 <= THETA /\ THETA <= 180)
  THEN Raise("ValueError",
             << "THETA", " must be between ", "-180 and 180",
                " degrees, got: " >>, THETA)
  ELSE IF ~(-90 <= PHI /\ PHI <= 90)
  THEN Raise("ValueError",
             << "PHI", " must be between ", "-90 and 90", " degrees, got: " >>,
             PHI)
  ELSE IF height <= 0
  THEN Raise("ValueError",
             << "height", " must be ", "greater than 0", ", got: " >>, height)
  ELSE IF width <= 0
  THEN Raise("ValueError",
             << "width", " must be ", "greater than 0", ", got: " >>, width)
  ELSE Ok("None")

\* the tangent of exactly pi/2 at FOV = 180, an infinity: a faulty variant,
\* under which the focal length of FOV = 180 is 0
TanHalfFovExact(FOV) == IF FOV = 180 THEN FInf(1) ELSE FOfPair(TanTab[FOV])

\* numpy.tan(0.5 * FOV / 180.0 * numpy.pi), FOV a whole number of degrees
\* in 1 .. 180
TanHalfFov(FOV) == FOfPair(TanTab[FOV])

\* f = 0.5 * width * 1 / tan(0.5 * FOV / 180 * pi), stored as float32
FocalLength(FOV, width) ==
  FDiv(FMul(FMul(FHalf, FromInt(width)), FOne), TanHalfFov(FOV))

\* K = [[f, 0, cx], [0, f, cy], [0, 0, 1]]
IntrinsicMatrix(FOV, width, height) ==
  LET K(f, cx, cy) ==
        << << f, FZero, cx >>, << FZero, f, cy >>, << FZero, FZero, FOne >> >>
  IN  K(FocalLength(FOV, width),
        FDiv(FromInt(width - 1), FromInt(2)),
        FDiv(FromInt(height - 1), FromInt(2)))

\* build_camera_matrix: (K, K_inv), or the LinAlgError of numpy.linalg.inv
build_camera_matrix(FOV, width, height) ==
  LET Result(K, inv) ==
        IF inv.exc # "none" THEN inv ELSE Ok([K |-> K, K_inv |-> inv.val])
      Invert(K) == Result(K, LinalgInv(K))
  IN  Invert(IntrinsicMatrix(FOV, width, height))

\* Meshgrid with the two axes exchanged (indexing "ij" for "xy"): a faulty
\* variant, under which the output has width rows of height pixels
MeshgridTransposed(width, height) ==
  [i \in 1..width |-> [j \in 1..height |-> << j - 1, i - 1 >>]]

\* numpy.meshgrid(arange(width), arange(height)): the pixel (x, y) of row i
\* and column j of a height x width grid
Meshgrid(width, height) ==
  [i \in 1..height |-> [j \in 1..width |-> << j - 1, i - 1 >>]]

\* the ray field with a homogeneous coordinate of 0 (zeros_like in place of
\* ones_like): a faulty variant
generate_3d_coordinatesZeros(width, height, K_inv) ==
  LET g == Meshgrid(width, height)
  IN  [i \in DOMAIN g |->
        [j \in DOMAIN g[i] |->
          MatVec(K_inv,
                 << FromInt(g[i][j][1]), FromInt(g[i][j][2]), FZero >>)]]

\* generate_3d_coordinates: the ray (x, y, 1) @ K_inv.T of every pixel, an
\* array of shape (height, width, 3)
generate_3d_coordinates(width, height, K_inv) ==
  LET g == Meshgrid(width, height)
  IN  [i \in DOMAIN g |->
        [j \in DOMAIN g[i] |->
          MatVec(K_inv,
                 << FromInt(g[i][j][1]), FromInt(g[i][j][2]), FOne >>)]]

\* DBL_EPSILON, below which cv2.Rodrigues takes the rotation for none
DblEpsilon == [k |-> "num", m |-> 8388608, e |-> -75]

\* Rodrigues with the sign of the sine term reversed, the rotation about
\* the same axis the other way round: a faulty variant
RodriguesReversed(rvec) ==
  LET Cross(r) == << << FZero, FNeg(r[3]), r[2] >>,
                     << r[3], FZero, FNeg(r[1]) >>,
                     << FNeg(r[2]), r[1], FZero >> >>
      Matrix(c, s, c1, r, rx) ==
        [i \in 1..3 |-> [j \in 1..3 |->
          FSub(FAdd(FMul(c, Eye3[i][j]), FMul(c1, FMul(r[i], r[j]))),
               FMul(s, rx[i][j]))]]
      About(c, s, r) == Matrix(c, s, FSub(FOne, c), r, Cross(r))
      Turn(theta) ==
        IF FLt(theta, DblEpsilon) THEN Eye3
        ELSE About(FCos(theta), FSin(theta),
                   Scale3(rvec, FDiv(FOne, theta)))
  IN  Turn(FSqrt(Dot3(rvec, rvec)))

\* Rodrigues without the division of rvec by its length: a faulty variant,
\* whose matrices are rotations only for an angle of one radian
RodriguesUnnormalised(rvec) ==
  LET Cross(r) == << << FZero, FNeg(r[3]), r[2] >>,
                     << r[3], FZero, FNeg(r[1]) >>,
                     << FNeg(r[2]), r[1], FZero >> >>
      Matrix(c, s, c1, r, rx) ==
        [i \in 1..3 |-> [j \in 1..3 |->
          FAdd(FAdd(FMul(c, Eye3[i][j]), FMul(c1, FMul(r[i], r[j]))),
               FMul(s, rx[i][j]))]]
      About(c, s, r) == Matrix(c, s, FSub(FOne, c), r, Cross(r))
      Turn(theta) ==
        IF FLt(theta, DblEpsilon) THEN Eye3
        ELSE About(FCos(theta), FSin(theta), rvec)
  IN  Turn(FSqrt(Dot3(rvec, rvec)))

\* cv2.Rodrigues: the rotation about the axis rvec / |rvec| by the angle
\* |rvec|, R = cos(t) I + (1 - cos(t)) r r^T + sin(t) [r]x
Rodrigues(rvec) ==
  LET Cross(r) == << << FZero, FNeg(r[3]), r[2] >>,
                     << r[3], FZero, FNeg(r[1]) >>,
                     << FNeg(r[2]), r[1], FZero >> >>
      Matrix(c, s, c1, r, rx) ==
        [i \in 1..3 |-> [j \in 1..3 |->
          FAdd(FAdd(FMul(c, Eye3[i][j]), FMul(c1, FMul(r[i], r[j]))),
               FMul(s, rx[i][j]))]]
      About(c, s, r) == Matrix(c, s, FSub(FOne, c), r, Cross(r))
      Turn(theta) ==
        IF FLt(theta, DblEpsilon) THEN Eye3
        ELSE About(FCos(theta), FSin(theta),
                   Scale3(rvec, FDiv(FOne, theta)))
  IN  Turn(FSqrt(Dot3(rvec, rvec)))

\* R with the turn by PHI about the x axis of the world instead of the
\* turned x axis: a faulty variant
RotationOfWorldPitch(THETA, PHI) ==
  LET y_axis == << FZero, FOne, FZero >>
      x_axis == << FOne, FZero, FZero >>
      R2(R1) == Rodrigues(Scale3(x_axis, Radians(PHI)))
      R(R1) == MatMul(R2(R1), R1)
  IN  R(Rodrigues(Scale3(y_axis, Radians(THETA))))

\* R without the turn about the y axis (R1 the identity whatever THETA
\* is): a faulty variant
RotationOfNoTheta(THETA, PHI) ==
  LET x_axis == << FOne, FZero, FZero >>
      R2(R1) == Rodrigues(Scale3(MatVec(R1, x_axis), Radians(PHI)))
      R(R1) == MatMul(R2(R1), R1)
  IN  R(Eye3)

\* R = R2 @ R1: R1 turns about the y axis by THETA, R2 about the turned
\* x axis R1 . (1, 0, 0) by PHI
RotationOf(THETA, PHI) ==
  LET y_axis == << FZero, FOne, FZero >>
      x_axis == << FOne, FZero, FZero >>
      R2(R1) == Rodrigues(Scale3(MatVec(R1, x_axis), Radians(PHI)))
      R(R1) == MatMul(R2(R1), R1)
  IN  R(Rodrigues(Scale3(y_axis, Radians(THETA))))

\* compute_rotation_matrices
compute_rotation_matrices(THETA, PHI) == RotationOf(THETA, PHI)

\* ------------------------------------------------------------------------
\* Equirec2Perspec.py: coordinate transforms
\* ------------------------------------------------------------------------

\* xyz2lonlat without the division by the norm: a faulty variant, under
\* which a ray longer than 1 along y has no latitude
xyz2lonlatUnnormalised(xyz) == << FAtan2(xyz[1], xyz[3]), FAsin(xyz[2]) >>

\* xyz2lonlat of one vector: (atan2(x, z), asin(y)) of xyz / |xyz|
xyz2lonlat(xyz) ==
  LET Unit(norm) ==
        << FAtan2(FDiv(xyz[1], norm), FDiv(xyz[3], norm)),
           FAsin(FDiv(xyz[2], norm)) >>
  IN  Unit(FSqrt(Dot3(xyz, xyz)))

\* xyz2lonlat of an array of shape (n, m, 3): an array of shape (n, m, 2)
xyz2lonlatArray(xyz) ==
  [i \in DOMAIN xyz |-> [j \in DOMAIN xyz[i] |-> xyz2lonlat(xyz[i][j])]]

\* lonlat2XY scaled by the width and the height instead of width - 1 and
\* height - 1: a faulty variant
lonlat2XYFullSize(lonlat, shape) ==
  << FMul(FAdd(FDiv(lonlat[1], FMul(FromInt(2), FPi)), FHalf),
          FromInt(shape[2])),
     FMul(FAdd(FDiv(lonlat[2], FPi), FHalf), FromInt(shape[1])) >>

\* lonlat2XY with the longitude first brought into [-pi, pi) (pi and
\* beyond wrapping back by 2 pi): a faulty variant
lonlat2XYWrapped(lonlat, shape) ==
  LET XY(lon) ==
        << FMul(FAdd(FDiv(lon, FMul(FromInt(2), FPi)), FHalf),
                FromInt(shape[2] - 1)),
           FMul(FAdd(FDiv(lonlat[2], FPi), FHalf), FromInt(shape[1] - 1)) >>
  IN  XY(IF FLe(FPi, lonlat[1]) THEN FSub(lonlat[1], FTwoPi) ELSE lonlat[1])

\* lonlat2XY of one (longitude, latitude) for an image of the given shape
lonlat2XY(lonlat, shape) ==
  << FMul(FAdd(FDiv(lonlat[1], FMul(FromInt(2), FPi)), FHalf),
          FromInt(shape[2] - 1)),
     FMul(FAdd(FDiv(lonlat[2], FPi), FHalf), FromInt(shape[1] - 1)) >>

\* lonlat2XY of an array of shape (n, m, 2): an array of shape (n, m, 2)
lonlat2XYArray(lonlat, shape) ==
  [i \in DOMAIN lonlat |->
    [j \in DOMAIN lonlat[i] |-> lonlat2XY(lonlat[i][j], shape)]]

\* ------------------------------------------------------------------------
\* cv2.remap with borderMode = BORDER_WRAP
\* ------------------------------------------------------------------------

\* the interpolation selectors: cv2.INTER_NEAREST, INTER_LINEAR,
\* INTER_CUBIC, INTER_LANCZOS4
Interps == { "INTER_NEAREST", "INTER_LINEAR", "INTER_CUBIC", "INTER_LANCZOS4" }

\* the bicubic kernel (A = -0.75) at the 32 sub-pixel positions, four taps
\* each, scaled by 2^15
CubicTab ==
  <<
     <<0, 32768, 0, 0>>,
     <<-721, 32697, 815, -23>>,
     <<-1350, 32490, 1718, -90>>,
     <<-1892, 32154, 2702, -196>>,
     <<-2352, 31696, 3760, -336>>,
     <<-2734, 31124, 4884, -506>>,
     <<-3042, 30446, 6066, -702>>,
     <<-3281, 29669, 7299, -919>>,
     <<-3456, 28800, 8576, -1152>>,
     <<-3571, 27847, 9889, -1397>>,
     <<-3630, 26818, 11230, -1650>>,
     <<-3638, 25720, 12592, -1906>>,
     <<-3600, 24560, 13968, -2160>>,
     <<-3520, 23346, 15350, -2408>>,
     <<-3402, 22086, 16730, -2646>>,
     <<-3251, 20787, 18101, -2869>>,
     <<-3072, 19456, 19456, -3072>>,
     <<-2869, 18101, 20787, -3251>>,
     <<-2646, 16730, 22086, -3402>>,
     <<-2408, 15350, 23346, -3520>>,
     <<-2160, 13968, 24560, -3600>>,
     <<-1906, 12592, 25720, -3638>>,
     <<-1650, 11230, 26818, -3630>>,
     <<-1397, 9889, 27847, -3571>>,
     <<-1152, 8576, 28800, -3456>>,
     <<-919, 7299, 29669, -3281>>,
     <<-702, 6066, 30446, -3042>>,
     <<-506, 4884, 31124, -2734>>,
     <<-336, 3760, 31696, -2352>>,
     <<-196, 2702, 32154, -1892>>,
     <<-90, 1718, 32490, -1350>>,
     <<-23, 815, 32697, -721>>
  >>

\* the Lanczos kernel at the 32 sub-pixel positions, eight taps each,
\* scaled by 2^15
LanczosTab ==
  <<
     <<0, 0, 0, 32768, 0, 0, 0, 0>>,
     <<-98, 315, -886, 32711, 956, -336, 107, -2>>,
     <<-185, 608, -1700, 32541, 1979, -689, 222, -8>>,
     <<-263, 877, -2440, 32259, 3065, -1058, 346, -19>>,
     <<-330, 1120, -3103, 31868, 4209, -1438, 475, -33>>,
     <<-386, 1336, -3689, 31370, 5407, -1827, 610, -52>>,
     <<-432, 1524, -4199, 30769, 6652, -2220, 749, -74>>,
     <<-468, 1684, -4632, 30069, 7940, -2613, 890, -101>>,
     <<-493, 1817, -4991, 29275, 9263, -3004, 1031, -130>>,
     <<-509, 1922, -5275, 28392, 10615, -3386, 1172, -162>>,
     <<-516, 2000, -5488, 27427, 11990, -3755, 1309, -197>>,
     <<-515, 2051, -5633, 26385, 13379, -4107, 1442, -233>>,
     <<-507, 2077, -5711, 25274, 14775, -4437, 1567, -270>>,
     <<-491, 2079, -5727, 24100, 16172, -4740, 1684, -308>>,
     <<-470, 2059, -5685, 22872, 17560, -5011, 1789, -345>>,
     <<-444, 2018, -5588, 21595, 18931, -5246, 1881, -381>>,
     <<-414, 1958, -5440, 20279, 20279, -5440, 1958, -414>>,
     <<-381, 1881, -5246, 18931, 21595, -5588, 2018, -444>>,
     <<-345, 1789, -5011, 17560, 22872, -5685, 2059, -470>>,
     <<-308, 1684, -4740, 16172, 24100, -5727, 2079, -491>>,
     <<-270, 1567, -4437, 14775, 25274, -5711, 2077, -507>>,
     <<-233, 1442, -4107, 13379, 26385, -5633, 2051, -515>>,
     <<-197, 1309, -3755, 11990, 27427, -5488, 2000, -516>>,
     <<-162, 1172, -3386, 10615, 28392, -5275, 1922, -509>>,
     <<-130, 1031, -3004, 9263, 29275, -4991, 1817, -493>>,
     <<-101, 890, -2613, 7940, 30069, -4632, 1684, -468>>,
     <<-74, 749, -2220, 6652, 30769, -4199, 1524, -432>>,
     <<-52, 610, -1827, 5407, 31370, -3689, 1336, -386>>,
     <<-33, 475, -1438, 4209, 31868, -3103, 1120, -330>>,
     <<-19, 346, -1058, 3065, 32259, -2440, 877, -263>>,
     <<-8, 222, -689, 1979, 32541, -1700, 608, -185>>,
     <<-2, 107, -336, 956, 32711, -886, 315, -98>>
  >>

\* the taps of a kernel along one axis, at sub-pixel position frac / 32
Kernel1D(interp, frac) ==
  CASE interp = "INTER_LINEAR"   -> << (32 - frac) * 1024, frac * 1024 >>
    [] interp = "INTER_CUBIC"    -> CubicTab[frac + 1]
    [] interp = "INTER_LANCZOS4" -> LanczosTab[frac + 1]

\* the first tap's offset from the sample's integer position
KernelOffset(interp) ==
  CASE interp = "INTER_LINEAR"   -> 0
    [] interp = "INTER_CUBIC"    -> -1
    [] interp = "INTER_LANCZOS4" -> -3

\* the processors OpenCV is built for
Archs == { "x86_64", "aarch64" }

VARIABLE
  arch     \* the processor of this build of OpenCV

\* INT_MIN and INT_MAX of the C type int
IntMin == (-2147483647) - 1

IntMax == 2147483647

\* cvRound of a coordinate: the nearest integer, ties to even.  The
\* conversion of NaN, of an infinity and of a number out of the int range
\* is left to the processor: the x86 conversion gives INT_MIN for all of
\* them, the ARM conversion 0 for NaN and the nearest end of the int range
\* for the rest.
CvRound(a) ==
  IF a.k = "num" /\ a.e <= 7 THEN FRound(a)
  ELSE IF arch = "x86_64" THEN IntMin
  ELSE IF a.k = "nan" THEN 0
  ELSE IF a.m < 0 THEN IntMin ELSE IntMax

\* saturate_cast<short>
SaturateShort(v) == IF v < -32768 THEN -32768 ELSE IF v > 32767 THEN 32767 ELSE v

\* saturate_cast<uchar>
SaturateUchar(v) == IF v < 0 THEN 0 ELSE IF v > 255 THEN 255 ELSE v

\* borderInterpolate(p, len, BORDER_REPLICATE), the nearest index inside: a
\* faulty variant, BORDER_REPLICATE for BORDER_WRAP
BorderReplicate(p, len) == IF p < 0 THEN 0 ELSE IF p >= len THEN len - 1 ELSE p

\* borderInterpolate(p, len, BORDER_WRAP): the index p taken modulo len
BorderWrap(p, len) == p % len

RECURSIVE SumTo(_, _)
SumTo(f, n) == IF n = 0 THEN 0 ELSE f[n] + SumTo(f, n - 1)

\* n / 2^15 rounded to nearest, for the product of two kernel taps
RoundQ15(n) == Sgn(n) * RoundShift(Abs(n), 15)

\* the 2-D weights of a kernel at sub-pixel position (fy, fx), row major,
\* with the sum brought to 2^15 by correcting one of the four weights
\* around the centre: the largest if the sum is short, the smallest if not
Kernel2D(interp, fy, fx) ==
  LET Raw(ky, kx, n) ==
        [q \in 1..(n * n) |->
          RoundQ15(ky[((q - 1) \div n) + 1] * kx[((q - 1) % n) + 1])]
      Lo(raw, a, b) == IF raw[b] < raw[a] THEN b ELSE a
      Hi(raw, a, b, l) ==
        IF ~(raw[b] < raw[l]) /\ raw[b] > raw[a] THEN b ELSE a
      Fix(raw, diff, lo, hi) ==
        IF diff < 0 THEN [raw EXCEPT ![hi] = raw[hi] - diff]
        ELSE [raw EXCEPT ![lo] = raw[lo] - diff]
      Pick3(raw, diff, lo2, hi2, c3) ==
        Fix(raw, diff, Lo(raw, lo2, c3), Hi(raw, hi2, c3, lo2))
      Pick2(raw, diff, lo1, hi1, c2, c3) ==
        Pick3(raw, diff, Lo(raw, lo1, c2), Hi(raw, hi1, c2, lo1), c3)
      Pick1(raw, diff, p1, n) ==
        Pick2(raw, diff, Lo(raw, p1, p1 + 1), Hi(raw, p1, p1 + 1, p1),
              p1 + n, p1 + n + 1)
      Correct(raw, diff, n) ==
        IF diff = 0 \/ n = 2 THEN raw
        ELSE Pick1(raw, diff, (n \div 2) * n + (n \div 2) + 1, n)
      Sum(raw, n) == Correct(raw, SumTo(raw, n * n) - 32768, n)
      Taps(n) == Sum(Raw(Kernel1D(interp, fy), Kernel1D(interp, fx), n), n)
  IN  Taps(Len(Kernel1D(interp, 0)))

\* one output pixel of cv2.remap: the source sampled at (X, Y)
RemapPixel(src, X, Y, interp) ==
  LET H == src.shape[1]
      W == src.shape[2]
      Tap(sx, sy, n, q) ==
        src.px[BorderWrap(sy + ((q - 1) \div n), H) + 1]
              [BorderWrap(sx + ((q - 1) % n), W) + 1]
      Sample(sx, sy, w, n) ==
        [ch \in 1..3 |->
          SaturateUchar(
            (SumTo([q \in 1..(n * n) |-> w[q] * Tap(sx, sy, n, q)[ch]],
                   n * n) + 16384) \div 32768)]
      \* (vx, vy): the coordinates in units of 1/32 pixel
      Fixed(vx, vy) ==
        Sample(SaturateShort(vx \div 32) + KernelOffset(interp),
               SaturateShort(vy \div 32) + KernelOffset(interp),
               Kernel2D(interp, vy % 32, vx % 32),
               Len(Kernel1D(interp, 0)))
  IN  IF interp = "INTER_NEAREST"
      THEN src.px[BorderWrap(SaturateShort(CvRound(Y)), H) + 1]
                 [BorderWrap(SaturateShort(CvRound(X)), W) + 1]
      ELSE Fixed(CvRound(FMul(X, FromInt(32))),
                 CvRound(FMul(Y, FromInt(32))))

\* cv2.remap refusing coordinates that are not finite: a faulty variant
RemapFiniteOnly(src, XY, interp) ==
  IF src.shape[1] = 0 \/ src.shape[2] = 0
  THEN Raise("cv2.error", << "(-215:Assertion failed)" >>, 0)
  ELSE IF \E i \in DOMAIN XY : \E j \in DOMAIN XY[i] :
            ~IsFinite(XY[i][j][1]) \/ ~IsFinite(XY[i][j][2])
  THEN Raise("cv2.error", << "(-215:Assertion failed)" >>, 0)
  ELSE Ok([shape |-> << Len(XY), IF Len(XY) = 0 THEN 0 ELSE Len(XY[1]),
                        src.shape[3] >>,
           dtype |-> src.dtype,
           px    |-> [i \in DOMAIN XY |->
                       [j \in DOMAIN XY[i] |->
                         RemapPixel(src, XY[i][j][1], XY[i][j][2], interp)]]])

\* cv2.remap(src, map_x, map_y, interpolation, borderMode=BORDER_WRAP): an
\* array of the maps' height and width, of the source's channels and type;
\* an empty source is refused
Remap(src, XY, interp) ==
  IF src.shape[1] = 0 \/ src.shape[2] = 0
  THEN Raise("cv2.error", << "(-215:Assertion failed)" >>, 0)
  ELSE Ok([shape |-> << Len(XY), IF Len(XY) = 0 THEN 0 ELSE Len(XY[1]),
                        src.shape[3] >>,
           dtype |-> src.dtype,
           px    |-> [i \in DOMAIN XY |->
                       [j \in DOMAIN XY[i] |->
                         RemapPixel(src, XY[i][j][1], XY[i][j][2], interp)]]])

\* ------------------------------------------------------------------------
\* Equirec2Perspec.py: class Equirectangular
\* ------------------------------------------------------------------------

\* Equirectangular.__init__ once load_image has returned the array img:
\* the instance, or the ValueError for an array that is not
\* (height, width, 3)
EquirectangularInit(img) ==
  IF Len(img.shape) # 3 \/ img.shape[3] # 3
  THEN Raise("ValueError",
             << "Image must have 3 color channels (RGB), got shape: " >>,
             img.shape)
  ELSE Ok([_img |-> img, _height |-> img.shape[1], _width |-> img.shape[2]])

\* the argument checks with the lower bound of FOV exclusive: a faulty
\* variant, under which FOV = 1 is refused
GpValidateExclusive(FOV, THETA, PHI, height, width) ==
  IF ~(1 < FOV /\ FOV <= 180)
  THEN Raise("ValueError",
             << "FOV", " must be between ", "1 and 180", " degrees, got: " >>,
             FOV)
  ELSE validate_perspective_params(FOV, THETA, PHI, height, width)

\* get_perspective, the argument checks: the first violated range, in the
\* order FOV, THETA, PHI, height, width
GpValidate(FOV, THETA, PHI, height, width) ==
  IF ~(1 <= FOV /\ FOV <= 180)
  THEN Raise("ValueError",
             << "FOV", " must be between ", "1 and 180", " degrees, got: " >>,
             FOV)
  ELSE IF ~(-180 <= THETA /\ THETA <= 180)
  THEN Raise("ValueError",
             << "THETA", " must be between ", "-180 and 180",
                " degrees, got: " >>, THETA)
  ELSE IF ~(-90 <= PHI /\ PHI <= 90)
  THEN Raise("ValueError",
             << "PHI", " must be between ", "-90 and 90", " degrees, got: " >>,
             PHI)
  ELSE IF height <= 0
  THEN Raise("ValueError",
             << "height", " must be ", "greater than 0", ", got: " >>, height)
  ELSE IF width <= 0
  THEN Raise("ValueError",
             << "width", " must be ", "greater than 0", ", got: " >>, width)
  ELSE Ok("None")

\* get_perspective, K and K_inv
GpCamera(FOV, width, height) == LinalgInv(IntrinsicMatrix(FOV, width, height))

\* get_perspective, the rays of the output pixels: xyz @ K_inv.T
GpRays(width, height, K_inv) ==
  LET g == Meshgrid(width, height)
  IN  [i \in DOMAIN g |->
        [j \in DOMAIN g[i] |->
          MatVec(K_inv,
                 << FromInt(g[i][j][1]), FromInt(g[i][j][2]), FOne >>)]]

\* get_perspective, the source coordinates of the output pixels:
\* lonlat2XY(xyz2lonlat(xyz @ R.T), shape)
GpMap(xyz, R, shape) ==
  [i \in DOMAIN xyz |->
    [j \in DOMAIN xyz[i] |->
      lonlat2XY(xyz2lonlat(MatVec(R, xyz[i][j])), shape)]]

\* Equirectangular.get_perspective: the perspective view, or the exception
\* raised
get_perspective(self, FOV, THETA, PHI, height, width, interpolation) ==
  LET Project(cam) ==
        IF cam.exc # "none" THEN cam
        ELSE Remap(self._img,
                   GpMap(GpRays(width, height, cam.val),
                         RotationOf(THETA, PHI), self._img.shape),
                   interpolation)
      Checked(chk) ==
        IF chk.exc # "none" THEN chk
        ELSE Project(GpCamera(FOV, width, height))
  IN  Checked(GpValidate(FOV, THETA, PHI, height, width))

\* faulty variants of get_perspective's effect on self: the view is
\* assigned to self._img instead of a local variable
GpSelfAfterKeepsView(self, out) ==
  IF out.exc = "none" THEN [self EXCEPT !._img = out.val] ELSE self

\* ... and: a call that raises resets the stored size
GpSelfAfterFailureResets(self, out) ==
  IF out.exc = "none" THEN self
  ELSE [self EXCEPT !._height = 0, !._width = 0]

\* get_perspective assigns no attribute of self: the instance after a
\* call that ended with out
GpSelfAfter(self, out) == self

\* ------------------------------------------------------------------------
\* profiling.py: the global statistics and the profile decorator
\* ------------------------------------------------------------------------

\* os.environ without the key, and with the key set to a string (the
\* sequence of its characters)
EnvUnset == [set |-> FALSE, value |-> << >>]

EnvSet(text) == [set |-> TRUE, value |-> text]

Uppers ==
  << "A", "B", "C", "D", "E", "F", "G", "H", "I", "J", "K", "L", "M",
     "N", "O", "P", "Q", "R", "S", "T", "U", "V", "W", "X", "Y", "Z" >>

Lowers ==
  << "a", "b", "c", "d", "e", "f", "g", "h", "i", "j", "k", "l", "m",
     "n", "o", "p", "q", "r", "s", "t", "u", "v", "w", "x", "y", "z" >>

\* the value compared as it is, without lower(): a faulty variant, under
\* which "TRUE" and "Yes" do not enable profiling
lowerAsIs(text) == text

\* str.lower()
lower(text) ==
  [i \in DOMAIN text |->
     IF \E k \in DOMAIN Uppers : Uppers[k] = text[i]
     THEN Lowers[CHOOSE k \in DOMAIN Uppers : Uppers[k] = text[i]]
     ELSE text[i]]

\* is_profiling_enabled(), e being the environment:
\* os.getenv(key, "").lower() in ("1", "true", "yes")
is_profiling_enabled(e) ==
  lower(IF e.set THEN e.value ELSE << >>) \in
    { << "1" >>, << "t", "r", "u", "e" >>, << "y", "e", "s" >> }

\* ProfilingStats(): the default factories of the two fields
ProfilingStatsInit(e) ==
  [entries |-> << >>, enabled |-> is_profiling_enabled(e)]

\* ------------------------------------------------------------------------
\* profiling.py: the durations, Python floats (binary64)
\* ------------------------------------------------------------------------

\* A natural number is the sequence of its binary digits, the most
\* significant first, without leading zeros; a float is [neg, m, e] of the
\* value m * 2^e, with m of 53 digits, or zero (m empty). Durations are
\* far from the overflow and underflow thresholds, which are left out.
Zeros(k) == [i \in 1..k |-> 0]

Trim(b) ==
  IF \A i \in DOMAIN b : b[i] = 0 THEN << >>
  ELSE SubSeq(b, CHOOSE k \in DOMAIN b :
                   b[k] = 1 /\ \A j \in 1..(k - 1) : b[j] = 0, Len(b))

\* the w binary digits of v
Bin(v, w) == [i \in 1..w |-> (v \div 2^(w - i)) % 2]

\* the number of digits b
RECURSIVE BVal(_)
BVal(b) ==
  IF Len(b) = 0 THEN 0
  ELSE IF Len(b) = 1 THEN b[1]
  ELSE BVal(SubSeq(b, 1, Len(b) \div 2)) * 2^(Len(b) - Len(b) \div 2)
         + BVal(SubSeq(b, Len(b) \div 2 + 1, Len(b)))

\* the arithmetic is done on groups of 24 digits, the most significant
\* group first: the k groups of b ...
Chunks(b, k) ==
  [i \in 1..k |->
     BVal(SubSeq(Zeros(24 * k - Len(b)) \o b, 24 * (i - 1) + 1, 24 * i))]

\* ... and the digits of the groups l
Digits(l) ==
  [j \in 1..(24 * Len(l)) |->
     (l[(j - 1) \div 24 + 1] \div 2^(23 - ((j - 1) % 24))) % 2]

\* the number of groups that hold a, b and a carry
ChunksFor(a, b) == (IF Len(a) > Len(b) THEN Len(a) ELSE Len(b)) \div 24 + 2

ChunkAdd(A, B) ==
  LET carry[i \in 1..(Len(A) + 1)] ==
        IF i = Len(A) + 1 THEN 0
        ELSE (A[i] + B[i] + carry[i + 1]) \div 2^24
  IN  [i \in 1..Len(A) |-> (A[i] + B[i] + carry[i + 1]) % 2^24]

ChunkSub(A, B) ==
  LET borrow[i \in 1..(Len(A) + 1)] ==
        IF i = Len(A) + 1 THEN 0
        ELSE IF A[i] - B[i] - borrow[i + 1] < 0 THEN 1 ELSE 0
  IN  [i \in 1..Len(A) |-> (A[i] - B[i] - borrow[i + 1] + 2^24) % 2^24]

BAdd(a, b) ==
  Trim(Digits(ChunkAdd(Chunks(a, ChunksFor(a, b)),
                       Chunks(b, ChunksFor(a, b)))))

\* a - b, for a >= b
BSub(a, b) ==
  Trim(Digits(ChunkSub(Chunks(a, ChunksFor(a, b)),
                       Chunks(b, ChunksFor(a, b)))))

BLess(a, b) ==
  \/ Len(a) < Len(b)
  \/ /\ Len(a) = Len(b)
     /\ \E k \in DOMAIN a : a[k] < b[k] /\ \A j \in 1..(k - 1) : a[j] = b[j]

F64Zero == [neg |-> FALSE, m |-> << >>, e |-> 0]

\* the float of mantissa hi * 2^27 + lo and exponent e
F64(hi, lo, e) == [neg |-> FALSE, m |-> Bin(hi, 26) \o Bin(lo, 27), e |-> e]

F64Neg(x) == IF x.m = << >> THEN x ELSE [x EXCEPT !.neg = ~x.neg]

\* x + y without rounding
DyAdd(x, y) ==
  LET e == IF x.e < y.e THEN x.e ELSE y.e
      Sum(X, Y) ==
        IF x.neg = y.neg THEN [neg |-> x.neg, m |-> BAdd(X, Y), e |-> e]
        ELSE IF BLess(X, Y) THEN [neg |-> y.neg, m |-> BSub(Y, X), e |-> e]
        ELSE [neg |-> x.neg, m |-> BSub(X, Y), e |-> e]
  IN  IF x.m = << >> THEN y
      ELSE IF y.m = << >> THEN x
      ELSE Sum(x.m \o Zeros(x.e - e), y.m \o Zeros(y.e - e))

\* the nearest float, ties to the even mantissa
RoundNearestEven(d) ==
  LET L == Len(d.m)
      Carried(h) ==
        IF Len(h) = 54
        THEN [neg |-> d.neg, m |-> SubSeq(h, 1, 53), e |-> d.e + L - 52]
        ELSE [neg |-> d.neg, m |-> h, e |-> d.e + L - 53]
  IN  IF L = 0 THEN F64Zero
      ELSE IF L <= 53
      THEN [neg |-> d.neg, m |-> d.m \o Zeros(53 - L), e |-> d.e - (53 - L)]
      ELSE IF d.m[54] = 1 /\ (d.m[53] = 1 \/ \E i \in 55..L : d.m[i] = 1)
      THEN Carried(BAdd(SubSeq(d.m, 1, 53), << 1 >>))
      ELSE [neg |-> d.neg, m |-> SubSeq(d.m, 1, 53), e |-> d.e + L - 53]

\* float + float
F64Add(x, y) == RoundNearestEven(DyAdd(x, y))

\* the groups of A / n, for a positive n below 8, and the remainder
ChunkDiv(A, n) ==
  LET rem[i \in 0..Len(A)] ==
        IF i = 0 THEN 0 ELSE (rem[i - 1] * 2^24 + A[i]) % n
  IN  [quo |-> [i \in 1..Len(A) |-> (rem[i - 1] * 2^24 + A[i]) \div n],
       rem |-> rem[Len(A)]]

\* the digits of num / n, followed by one digit more that tells whether a
\* remainder is left
DivDigits(num, n) ==
  LET Sticky(d) == Digits(d.quo) \o << IF d.rem = 0 THEN 0 ELSE 1 >>
  IN  Sticky(ChunkDiv(Chunks(num, Len(num) \div 24 + 1), n))

\* float / int, for a positive int
F64DivInt(x, n) ==
  IF x.m = << >> THEN x
  ELSE RoundNearestEven([neg |-> x.neg,
                         m |-> Trim(DivDigits(x.m \o Zeros(8), n)),
                         e |-> x.e - 9])

\* abs(x) < abs(y)
MagLess(x, y) ==
  IF y.m = << >> THEN FALSE
  ELSE IF x.m = << >> THEN TRUE
  ELSE x.e < y.e \/ (x.e = y.e /\ BLess(x.m, y.m))

\* x < y
F64Lt(x, y) ==
  IF x.neg = y.neg THEN (IF x.neg THEN MagLess(y, x) ELSE MagLess(x, y))
  ELSE x.neg

\* the builds of sum(): CPython adds the floats from left to right, and
\* from version 3.12 on with Neumaier's compensation
SumBuilds == { "left_to_right", "compensated" }

\* f_result after the first i of the durations
RECURSIVE SumLeft(_, _)
SumLeft(durations, i) ==
  IF i = 1 THEN durations[1]
  ELSE F64Add(SumLeft(durations, i - 1), durations[i])

\* what the addition t = f + x lost: (f - t) + x, or (x - t) + f when
\* fabs(f) < fabs(x)
Lost(f, x, t) ==
  IF ~MagLess(f, x) THEN F64Add(F64Add(f, F64Neg(t)), x)
  ELSE F64Add(F64Add(x, F64Neg(t)), f)

\* f_result (t) and the compensation c after one more duration x
Compensate(st, x, t) == [t |-> t, c |-> F64Add(st.c, Lost(st.t, x, t))]

\* f_result and c after the first i of the durations
RECURSIVE Compensated(_, _)
Compensated(durations, i) ==
  IF i = 1 THEN [t |-> durations[1], c |-> F64Zero]
  ELSE LET Step(st) == Compensate(st, durations[i],
                                  F64Add(st.t, durations[i]))
       IN  Step(Compensated(durations, i - 1))

\* sum(durations), of a list of floats that is not empty
sum(durations, build) ==
  LET Result(st) == IF st.c.m = << >> THEN st.t ELSE F64Add(st.t, st.c)
  IN  IF build = "left_to_right" THEN SumLeft(durations, Len(durations))
      ELSE Result(Compensated(durations, Len(durations)))

\* min(durations) and max(durations)
MinOf(durations) ==
  durations[CHOOSE i \in DOMAIN durations :
              \A j \in DOMAIN durations : ~F64Lt(durations[j], durations[i])]

MaxOf(durations) ==
  durations[CHOOSE i \in DOMAIN durations :
              \A j \in DOMAIN durations : ~F64Lt(durations[i], durations[j])]

\* get_stats over all the entries, whatever their names: a faulty variant
get_statsUnfiltered(s, name, build) ==
  LET Figures(durations, total) ==
        [count |-> Len(durations), total |-> total,
         mean |-> F64DivInt(total, Len(durations)),
         min |-> MinOf(durations), max |-> MaxOf(durations)]
      Stats(durations) == Figures(durations, sum(durations, build))
  IN  IF s.entries = << >>
      THEN [count |-> 0, total |-> F64Zero, mean |-> F64Zero,
            min |-> F64Zero, max |-> F64Zero]
      ELSE Stats([i \in DOMAIN s.entries |-> s.entries[i].duration])

\* ProfilingStats.get_stats(name)
get_stats(s, name, build) ==
  LET Figures(durations, total) ==
        [count |-> Len(durations), total |-> total,
         mean |-> F64DivInt(total, Len(durations)),
         min |-> MinOf(durations), max |-> MaxOf(durations)]
      Stats(durations) == Figures(durations, sum(durations, build))
      Matching(entries) ==
        IF entries = << >>
        THEN [count |-> 0, total |-> F64Zero, mean |-> F64Zero,
              min |-> F64Zero, max |-> F64Zero]
        ELSE Stats([i \in DOMAIN entries |-> entries[i].duration])
  IN  Matching(SelectSeq(s.entries, LAMBDA en : en.name = name))

\* ProfilingStats.get_all_stats()
get_all_stats(s, build) ==
  [name \in { s.entries[i].name : i \in DOMAIN s.entries } |->
     get_stats(s, name, build)]

\* add_entry appending without reading enabled: a faulty variant, under
\* which an operation that started enabled is recorded after profiling
\* was disabled
add_entryAlways(s, name, duration) ==
  [s EXCEPT !.entries =
              Append(s.entries, [name |-> name, duration |-> duration])]

\* ProfilingStats.add_entry(name, duration): appends when enabled
add_entry(s, name, duration) ==
  IF s.enabled
  THEN [s EXCEPT !.entries =
                   Append(s.entries, [name |-> name, duration |-> duration])]
  ELSE s

\* ProfilingStats.clear(): empties the list of entries in place
clear(s) == [s EXCEPT !.entries = << >>]

\* the name argument of profile: None, or a string
None == [none |-> TRUE, str |-> ""]

Str(text) == [none |-> FALSE, str |-> text]

\* decorator(func): the name the calls of func are recorded under, name
\* or f"{func.__module__}.{func.__qualname__}" (func.full): None and the
\* empty string are false
operation_name(name, func) ==
  IF ~name.none /\ name.str # "" THEN name.str ELSE func.full

\* wrapper(*args, **kwargs) of a function decorated with profile(name),
\* body being what the function returns or raises and duration the
\* difference of the two readings of time.perf_counter(), which is
\* monotonic: out is what the caller gets, stats the statistics afterwards
wrapper(s, operation, body, duration) ==
  IF ~s.enabled THEN [out |-> body, stats |-> s]
  ELSE [out |-> body, stats |-> add_entry(s, operation, duration)]

\* with profile_block(name): body
profile_block(s, name, body, duration) ==
  IF ~s.enabled THEN [out |-> body, stats |-> s]
  ELSE [out |-> body, stats |-> add_entry(s, name, duration)]

\* wrapper and profile_block in their two steps. The start: enabled is
\* read, and when it is true the performance counter is read and the
\* operation is timed; the function or the block then runs
Started(s, name) == [name |-> name, timed |-> s.enabled]

\* the completion putting the entry in front of the others: a faulty
\* variant, under which the entries are not in the order of completion
CompletedInFront(s, op, duration) ==
  IF op.timed /\ s.enabled
  THEN [s EXCEPT !.entries =
                   << [name |-> op.name, duration |-> duration] >>
                     \o s.entries]
  ELSE s

\* the completion, by a return or by an exception: the finally clause of
\* a timed operation hands the name and the duration to add_entry; an
\* operation that is not timed has no finally clause
Completed(s, op, duration) ==
  IF op.timed THEN add_entry(s, op.name, duration) ELSE s

\* reset binding _global_stats to a new ProfilingStats: a faulty variant,
\* under which a reference handed out before still shows the old entries
reset_profiling_statsRebinds(s, r) ==
  [stats |-> [entries |-> << >>, enabled |-> s.enabled],
   refs |-> [r EXCEPT !.global = r.global + 1, !.old = Append(r.old, s)]]

\* reset_profiling_stats(): _global_stats.clear(), on the object the name
\* is bound to
reset_profiling_stats(s, r) == [stats |-> clear(s), refs |-> r]

\* get_profiling_stats(): the object _global_stats names
get_profiling_stats(r) == r.global

\* the object a reference leads to: the one _global_stats names, or one it
\* named before
Deref(s, r, id) == IF id = r.global THEN s ELSE r.old[id]

\* the wrapper without its test of enabled, appending on its own: a faulty
\* variant, under which a call is recorded with profiling disabled
ProfileWrapperUnguarded(s, name, duration) ==
  [s EXCEPT !.entries =
              Append(s.entries, [name |-> name, duration |-> duration])]

\* the wrapper of profile(name) around a call that took duration: calls
\* the function as it is when the statistics are disabled, and records
\* the call (through add_entry) when they are enabled
ProfileWrapper(s, name, duration) ==
  IF ~s.enabled THEN s ELSE add_entry(s, name, duration)

\* apply_transformations_and_remap(xyz, R, source_image, interpolation)
apply_transformations_and_remap(xyz, R, source_image, interpolation) ==
  Remap(source_image, GpMap(xyz, R, source_image.shape), interpolation)

\* ------------------------------------------------------------------------
\* Bounds and inputs
\* ------------------------------------------------------------------------

\* largest height and width of an output image
MaxOut == 2

\* most calls, the constructor's among them, in one behaviour of Spec and
\* of SpecComp
MaxCalls == 4

\* largest output width for which the camera matrix is built in SpecCam
MaxWidth == 4

\* largest height of a decoded array handed to the constructor in SpecInit
MaxSrc == 2

\* number of threads calling get_perspective at once in SpecConc
NThreads == 2

NoInstance == [absent |-> TRUE]

\* a numpy array of the given shape filled with v
FillArray(shape, v) ==
  [shape |-> shape, dtype |-> "uint8",
   px |-> [r \in 1..shape[1] |-> [c \in 1..shape[2] |->
            IF Len(shape) = 3 THEN [ch \in 1..shape[3] |-> v] ELSE v]]]

\* a 3 x 4 panorama whose pixels all differ
ImgGradient ==
  [shape |-> << 3, 4, 3 >>, dtype |-> "uint8",
   px |-> [r \in 1..3 |-> [c \in 1..4 |->
            << 50 * c, 80 * r, 255 - 60 * c >>]]]

\* the smallest panorama: one pixel
ImgPixel == FillArray(<< 1, 1, 3 >>, 77)

\* decoded panoramas as load_image returns them: 8 bit, three channels
SourceImages == { ImgGradient, ImgPixel }

\* arrays a decoder (or a stand-in for load_image) may hand to __init__:
\* two- and three-dimensional, 1, 3 or 4 channels, a dimension may be 0
DecodedArrays ==
  { FillArray(<< h, w >>, v) : h \in 0..MaxSrc, w \in 0..3, v \in {0, 200} }
  \cup { FillArray(<< h, w, c >>, v) :
           h \in 0..MaxSrc, w \in 0..3, c \in {1, 3, 4}, v \in {0, 200} }

Args(FOV, THETA, PHI, height, width, interpolation) ==
  [FOV |-> FOV, THETA |-> THETA, PHI |-> PHI, height |-> height,
   width |-> width, interpolation |-> interpolation]

\* arguments of get_perspective, in and out of range, with every boundary
ProjectArgs ==
  { Args(f, t, p, h, w, ip) :
      f \in {0, 1, 60, 180, 181, 200}, t \in {-181, -180, 0, 180, 181},
      p \in {-91, -90, 30, 90, 91}, h \in {-1, 0, 1, MaxOut},
      w \in {0, 1, MaxOut}, ip \in Interps }

\* a few calls for the behaviours with several calls
FewArgs ==
  { Args(90, 0, 0, 1, MaxOut, "INTER_LINEAR"),
    Args(60, 90, 30, 1, 1, "INTER_CUBIC"),
    Args(180, -180, 90, MaxOut, 1, "INTER_NEAREST"),
    Args(200, 0, 0, 1, 1, "INTER_CUBIC") }

\* whole degrees on a grid of 5, and some off it
GridTheta == { 5 * i : i \in -36..36 } \cup { -179, -91, -1, 1, 44, 89, 179 }

GridPhi == { 5 * i : i \in -18..18 } \cup { -89, -1, 1, 44, 89 }

\* measured durations of a profiled call, in ticks of the performance
\* counter
Durations == { 0, 2 }

Threads == 1..NThreads

\* the calls of concurrent threads: two orientations on the one panorama,
\* and a call that fails its argument check
ConcArgs ==
  { Args(90, 0, 0, 1, MaxOut, "INTER_LINEAR"),
    Args(60, 90, 30, 1, 1, "INTER_CUBIC"),
    Args(60, 0, 91, 1, 1, "INTER_LINEAR") }

\* largest factor by which a ray is lengthened
MaxScale == 3

\* rays with whole coordinates, the zero vector among them
Rays == { << x, y, z >> : x \in -2..2, y \in -2..2, z \in -2..2 }

\* an array of shape (2, m, 3): the ray v along the first row, the ray
\* k * v along the second
RayArray(v, k, m) ==
  [i \in 1..2 |-> [j \in 1..m |->
    [c \in 1..3 |-> FromInt((IF i = 1 THEN 1 ELSE k) * v[c])]]]

\* angles as multiples of pi/4: longitudes from -2 pi to 2 pi, latitudes
\* from -pi/2 to pi/2 (the multiples are powers of two, hence exact)
LonSteps == { -8, -4, -2, -1, 0, 1, 2, 4, 8 }

LatSteps == { -2, -1, 0, 1, 2 }

\* step * pi/4
AngleOf(step) == FMul(FromInt(step), [k |-> "num", m |-> 13176795, e |-> -24])

\* the (height, width) of source images
SrcShapes ==
  { << h, w >> : h \in { 1, 2, 3, 180, 360, 512 },
                 w \in { 1, 4, 360, 720, 1024 } }


\* the ray of no length
ZeroRay == << FZero, FZero, FZero >>

\* arrays of rays that hold a zero-length ray, alone or beside the forward
\* ray (0, 0, 1)
DegenerateRays ==
  { << << ZeroRay >> >>,
    << << ZeroRay, << FZero, FZero, FOne >> >> >>,
    << << << FZero, FZero, FOne >> >>, << ZeroRay >> >> }


\* how many pixels beyond an edge of the source a sample is taken
MaxBeyond == 2

\* sample coordinates along an axis of len pixels, in steps of a quarter
\* (along x) or a half (along y) of a pixel, from MaxBeyond pixels before
\* the first to MaxBeyond pixels after the last
SampleCoords(len, step) ==
  { MkF(step * n, -2) :
      n \in ((-4 * MaxBeyond) \div step)..((4 * (len - 1 + MaxBeyond)) \div step) }


\* a 2 x 8 panorama whose colour changes from column to column
ImgWide ==
  [shape |-> << 2, 8, 3 >>, dtype |-> "uint8",
   px |-> [r \in 1..2 |-> [c \in 1..8 |->
            << 30 * c, 100 * r, 255 - 30 * c >>]]]

\* a 3 x 4 panorama whose colour depends on the row alone
ImgRows ==
  [shape |-> << 3, 4, 3 >>, dtype |-> "uint8",
   px |-> [r \in 1..3 |-> [c \in 1..4 |-> << 80 * r, 80 * r, 10 * r >>]]]

\* the panoramas the views of two orientations are compared on: the two
\* gradients, the rows, and one of a single colour
ViewImages == { ImgGradient, ImgWide, ImgRows, FillArray(<< 2, 4, 3 >>, 200) }

\* the THETA of a second call, which differs from the first, at THETA = 0,
\* in nothing else
Turns == { 90, 180 }

\* the calls two orientations are compared with
ThetaArgs ==
  { Args(f, t, p, hw[1], hw[2], ip) :
      f \in { 60, 90 }, t \in { 0 } \cup Turns, p \in { 0, 30 },
      hw \in { << 1, 1 >>, << 1, MaxOut >>, << MaxOut, MaxOut >> },
      ip \in Interps }


\* largest number of profiled operations in a behaviour
MaxProfiled == 2

\* the name arguments of profile ...
ProfileNames == { None, Str(""), Str("test_function") }

\* ... and of profile_block
BlockNames == { "", "test_block" }

\* a decorated function
Funcs ==
  { [module |-> "tests.test_profiling", qualname |-> "my_function",
     full |-> "tests.test_profiling.my_function"] }

\* what a profiled function or block does: returns, or raises
Bodies == { Ok("done"), Raise("ValueError", "test error", 0) }


\* largest number of starts, completions and resets in a behaviour with
\* profiled operations running
MaxSteps == 5

\* largest number of references to the statistics a caller holds
MaxHeld == 2

\* the names entries are added under
EntryNames == { "op1", "op2" }


\* what the environment holds at the key EQUIREC2PERSPEC_PROFILE
EnvValues ==
  { EnvUnset, EnvSet(<< >>), EnvSet(<< "1" >>), EnvSet(<< "0" >>),
    EnvSet(<< "t", "r", "u", "e" >>), EnvSet(<< "T", "R", "U", "E" >>),
    EnvSet(<< "Y", "e", "s" >>), EnvSet(<< "o", "n" >>) }


\* largest number of calls on the statistics whose figures are compared
MaxEntries == 3

\* measured durations in seconds, as floats: 0.1, 0.7 and 2.0
FloatDurations ==
  { F64(53687091, 26843546, -56), F64(46976204, 107374182, -53),
    F64(33554432, 0, -51) }


\* ------------------------------------------------------------------------
\* The files: pathlib, open, cv2.imread, cv2.imwrite
\* ------------------------------------------------------------------------

\* what a path names: nothing, a directory, or a regular file with its
\* permission bits and its content (the format of the bytes and the pixels
\* they encode, if any)
NoData == [format |-> "none", pixels |-> << >>]

Absent == [kind |-> "absent", readable |-> FALSE, writable |-> FALSE,
           data |-> NoData]

Dir(writable) == [kind |-> "dir", readable |-> TRUE, writable |-> writable,
                  data |-> NoData]

File(readable, data) == [kind |-> "file", readable |-> readable,
                         writable |-> TRUE, data |-> data]

Encoded(format, pixels) == [format |-> format, pixels |-> pixels]

\* the decoders load_image chooses from at import: OpenCV when turbojpeg
\* cannot be imported, TurboJPEG when it can; TurboJPEG() raises when the
\* module is there and its shared library is not (RuntimeError when it is
\* not located, OSError when it cannot be loaded)
Decoders == { "TurboJPEG", "OpenCV", "TurboJPEG, library not located",
              "TurboJPEG, library not loadable" }

\* tjpg.decode(img.read()) inside open(path_str, "rb"): the open raises
\* PermissionError for a file that cannot be read, the decoder raises for
\* bytes that are not JPEG
TurboDecode(node) ==
  IF ~node.readable THEN Raise("PermissionError", << >>, 0)
  ELSE IF node.data.format # "jpeg" THEN Raise("OSError", << >>, 0)
  ELSE Ok(node.data.pixels)

\* cv2.imread(path_str, cv2.IMREAD_COLOR): None (here << >>) for a file it
\* cannot open or cannot decode
Imread(node) ==
  IF node.kind = "file" /\ node.readable
     /\ node.data.format \in { "jpeg", "png" }
  THEN node.data.pixels
  ELSE << >>

\* load_image(path) on the files, with the decoder of this installation:
\* the result and the calls made on the path, in order
load_image(path, files, decoder) ==
  IF files[path].kind = "absent"
  THEN [out |-> Raise("FileNotFoundError", << "Image file not found: " >>,
                      path),
        calls |-> << "exists" >>]
  ELSE IF files[path].kind # "file"
  THEN [out |-> Raise("ValueError", << "Path is not a file: " >>, path),
        calls |-> << "exists", "is_file" >>]
  ELSE IF decoder = "TurboJPEG, library not located"
  THEN [out |-> Raise("RuntimeError", << >>, 0),
        calls |-> << "exists", "is_file" >>]
  ELSE IF decoder = "TurboJPEG, library not loadable"
  THEN [out |-> Raise("IOError", << "Failed to read image file: " >>, path),
        calls |-> << "exists", "is_file" >>]
  ELSE IF decoder = "TurboJPEG"
  THEN [out |-> IF TurboDecode(files[path]).exc # "none"
                THEN Raise("ValueError",
                           << "Failed to decode image with TurboJPEG: " >>,
                           path)
                ELSE TurboDecode(files[path]),
        calls |-> << "exists", "is_file", "open" >>]
  ELSE [out |-> IF Imread(files[path]) = << >>
                THEN Raise("ValueError",
                           << "Failed to decode image (unsupported format ",
                              "or corrupted file): " >>, path)
                ELSE Ok(Imread(files[path])),
        calls |-> << "exists", "is_file", "imread" >>]

\* Equirectangular(img_name): load_image, then the channel check
Equirectangular(img_name, files, decoder) ==
  IF load_image(img_name, files, decoder).out.exc # "none"
  THEN load_image(img_name, files, decoder).out
  ELSE EquirectangularInit(load_image(img_name, files, decoder).out.val)


\* the paths of the model: the working directory, the panorama, the
\* directory of the output and the output, with and without an extension
\* that OpenCV can encode
Paths == { ".", "pano.jpg", "views", "views/view.jpg", "views/view.xyz" }

\* an installation where no path names anything
NoFiles == [decoder |-> "OpenCV", files |-> [p \in Paths |-> Absent]]

\* what the panorama path can name: nothing, a directory, a file that
\* cannot be read, and files of JPEG, PNG and other bytes
PanoNodes ==
  { Absent, Dir(TRUE) }
  \cup { File(r, Encoded(f, ImgGradient)) :
           r \in BOOLEAN, f \in { "jpeg", "png" } }
  \cup { File(r, Encoded("text", << >>)) : r \in BOOLEAN }
  \cup { File(TRUE, Encoded("jpeg", ImgPixel)) }


\* calls of load_image and of the constructor in one behaviour
MaxLoads == 2


\* ------------------------------------------------------------------------
\* cli.py: the command line
\* ------------------------------------------------------------------------

\* an Optional[int]: None, or an int
NoneInt == [none |-> TRUE, int |-> 0]

Some(n) == [none |-> FALSE, int |-> n]

\* int(n / d) for ints n >= 0 and d > 0: the float quotient, truncated.
\* Below 2^50 the float quotient of a division that leaves a remainder
\* lies strictly between the two neighbouring integers, so the truncation
\* is the integer quotient.
IntOfQuotient(n, d) == n \div d

\* _calculate_dimensions(width, height): (width, height), or ValueError
_calculate_dimensions(width, height) ==
  IF width.none /\ height.none THEN Ok(<< 1920, 1080 >>)
  ELSE IF width.none
  THEN IF height.none \/ height.int <= 0
       THEN Raise("ValueError", << "Height must be greater than 0" >>, 0)
       ELSE Ok(<< IntOfQuotient(height.int * 16, 9), height.int >>)
  ELSE IF height.none
  THEN IF width.int <= 0
       THEN Raise("ValueError", << "Width must be greater than 0" >>, 0)
       ELSE Ok(<< width.int, IntOfQuotient(width.int * 9, 16) >>)
  ELSE IF width.int <= 0 \/ height.int <= 0
  THEN Raise("ValueError", << "Width and height must be greater than 0" >>, 0)
  ELSE Ok(<< width.int, height.int >>)


\* _get_interpolation_method(method): the OpenCV constant of a method name
_get_interpolation_method(method) ==
  IF method = "nearest" THEN Ok("INTER_NEAREST")
  ELSE IF method = "bilinear" THEN Ok("INTER_LINEAR")
  ELSE IF method = "bicubic" THEN Ok("INTER_CUBIC")
  ELSE IF method = "lanczos" THEN Ok("INTER_LANCZOS4")
  ELSE Raise("ValueError", << "Unsupported interpolation method: " >>, method)

\* Path(output_path).parent
Parent(path) == IF path \in { "views/view.jpg", "views/view.xyz" }
                THEN "views" ELSE "."

\* output_dir.mkdir(parents=True, exist_ok=True): OSError where the
\* directory above does not allow it
Mkdir(files, dir) ==
  IF files[Parent(dir)].kind = "dir" /\ files[Parent(dir)].writable
  THEN Ok([files EXCEPT ![dir] = Dir(TRUE)])
  ELSE Raise("OSError", << "Permission denied: " >>, dir)

\* cv2.imwrite(output_path, img, [cv2.IMWRITE_JPEG_QUALITY, quality]):
\* cv2.error for an extension without an encoder, False where the file
\* cannot be opened for writing, else the encoded image in the file and
\* True
Imwrite(files, path, img, quality) ==
  IF path = "views/view.xyz"
  THEN [out |-> Raise("cv2.error",
                      << "could not find a writer for the specified ",
                         "extension" >>, 0),
        files |-> files]
  ELSE IF \/ files[Parent(path)].kind # "dir"
          \/ files[path].kind = "dir"
          \/ files[path].kind = "absent" /\ ~files[Parent(path)].writable
          \/ files[path].kind = "file" /\ ~files[path].writable
  THEN [out |-> Ok(FALSE), files |-> files]
  ELSE [out |-> Ok(TRUE),
        files |-> [files EXCEPT ![path] =
                     File(TRUE, Encoded("jpeg",
                                        [of |-> img, quality |-> quality]))]]

\* what main leaves behind: the exception it ends with (none, or a
\* ClickException or BadParameter with its message), what it echoed, the
\* steps it took on the files and the library, and the files
Ended(exc, message, echo, steps, files) ==
  [exc |-> exc, message |-> message, echo |-> echo, steps |-> steps,
   files |-> files]

\* the exit status click gives the command: 0 when main returns, 1 for a
\* ClickException, 2 for a BadParameter (a usage error)
ExitCode(exc) ==
  IF exc = "none" THEN 0 ELSE IF exc = "BadParameter" THEN 2 ELSE 1

\* the handlers with the ValueError clause after the catch-all: a faulty
\* variant, under which a ValueError is reported as a processing failure
ClassifiedNoValueError(e) ==
  IF e.exc = "FileNotFoundError" THEN << "File not found: " >> \o e.text
  ELSE << "Processing failed: " >> \o e.text

\* main, the handlers of the try block: the message for an exception
\* raised while loading, projecting or saving
Classified(e) ==
  IF e.exc = "FileNotFoundError" THEN << "File not found: " >> \o e.text
  ELSE IF e.exc = "ValueError" THEN << "Invalid parameter: " >> \o e.text
  ELSE << "Processing failed: " >> \o e.text

\* click.echo of the lines printed only with --verbose
Verbose(a, lines) == IF a.verbose THEN lines ELSE << >>

\* the one element of a set of one element
The(S) == CHOOSE r \in S : TRUE

\* main, the try block: load, project (view is the result of the call of
\* get_perspective), save
MainConvert(a, dims, interpolation_cv, files, steps, decoder, view) ==
  LET Failed(e, echo, did, fl) ==
        Ended("ClickException", Classified(e), echo, steps \o did, fl)
      Saved(wr, echo, did) ==
        IF wr.out.exc # "none" THEN Failed(wr.out, echo, did, wr.files)
        ELSE IF ~wr.out.val
        THEN Failed(Raise("ClickException",
                          << "Failed to save output image" >>, 0),
                    echo, did, wr.files)
        ELSE Ended("none", << >>,
                   echo \o (IF a.verbose
                            THEN << "U+2713 Successfully converted image" >>
                            ELSE << "U+2713", a.output_path >>),
                   steps \o did, wr.files)
      Projected(img, echo, did) ==
        IF img.exc # "none" THEN Failed(img, echo, did, files)
        ELSE The({ Saved(wr, echo \o Verbose(a, << "Saving to: " >>),
                         did \o << "imwrite" >>) :
                     wr \in { Imwrite(files, a.output_path, img.val,
                                      a.quality) } })
      Loaded(equ0, echo, did) ==
        IF equ0.exc # "none" THEN Failed(equ0, echo, did, files)
        ELSE Projected(view,
                             echo \o Verbose(a, << "Extracting view" >>),
                             did \o << "get_perspective" >>)
  IN  The({ Loaded(equ0,
                   Verbose(a, << "Loading equirectangular image: " >>),
                   << "load_image" >>) :
              equ0 \in { Equirectangular(a.input_path, files, decoder) } })

\* the range checks with the quality accepted up to 101: a faulty variant
MainRangesQuality101(a) ==
  IF ~(1 <= a.fov /\ a.fov <= 180)
  THEN << "FOV must be between 1 and 180 degrees" >>
  ELSE IF ~(-180 <= a.theta /\ a.theta <= 180)
  THEN << "THETA must be between -180 and 180 degrees" >>
  ELSE IF ~(-90 <= a.phi /\ a.phi <= 90)
  THEN << "PHI must be between -90 and 90 degrees" >>
  ELSE IF ~(1 <= a.quality /\ a.quality <= 101)
  THEN << "Quality must be between 1 and 100" >>
  ELSE << >>

\* main, the range checks: the message of the first parameter out of its
\* range, in the order fov, theta, phi, quality
MainRanges(a) ==
  IF ~(1 <= a.fov /\ a.fov <= 180)
  THEN << "FOV must be between 1 and 180 degrees" >>
  ELSE IF ~(-180 <= a.theta /\ a.theta <= 180)
  THEN << "THETA must be between -180 and 180 degrees" >>
  ELSE IF ~(-90 <= a.phi /\ a.phi <= 90)
  THEN << "PHI must be between -90 and 90 degrees" >>
  ELSE IF ~(1 <= a.quality /\ a.quality <= 100)
  THEN << "Quality must be between 1 and 100" >>
  ELSE << >>

\* main(input_path, output_path, fov, theta, phi, width, height,
\* interpolation, quality, verbose) on the files; view is what
\* equ.get_perspective gives in the runs that reach it (MainView)
main(a, files, decoder, view) ==
  LET Bad(text) == Ended("BadParameter", << text >>, << >>, << >>, files)
      Prepared(fl, steps) ==
        IF ~fl[Parent(a.output_path)].writable
        THEN Ended("ClickException",
                   << "Output directory is not writable: " >>, << >>,
                   steps, fl)
        ELSE The({ MainConvert(a, dims.val, interpolation_cv.val, fl, steps,
                               decoder, view) :
                     dims \in { _calculate_dimensions(a.width, a.height) },
                     interpolation_cv \in
                       { _get_interpolation_method(a.interpolation) } })
      Made(mk, steps) ==
        IF mk.exc # "none"
        THEN Ended("ClickException",
                   << "Cannot create output directory: " >> \o mk.text,
                   << >>, steps, files)
        ELSE Prepared(mk.val, steps)
  IN  IF MainRanges(a) # << >> THEN Bad(MainRanges(a)[1])
      ELSE IF _calculate_dimensions(a.width, a.height).exc # "none"
      THEN Ended("BadParameter",
                 _calculate_dimensions(a.width, a.height).text,
                 << >>, << >>, files)
      ELSE The({ Made(mk, IF files[Parent(a.output_path)].kind = "absent"
                          THEN << "mkdir" >> ELSE << >>) :
                   mk \in { IF files[Parent(a.output_path)].kind = "absent"
                            THEN Mkdir(files, Parent(a.output_path))
                            ELSE Ok(files) } })


\* the parameters click hands to main
Cli(fov, theta, phi, width, height, interpolation, quality, verbose,
    output_path) ==
  [input_path |-> "pano.jpg", output_path |-> output_path, fov |-> fov,
   theta |-> theta, phi |-> phi, width |-> width, height |-> height,
   interpolation |-> interpolation, quality |-> quality,
   verbose |-> verbose]

\* --width and --height: not given, negative, zero, and sizes up to the
\* ones of the tests
OptionalSizes ==
  { NoneInt } \cup { Some(n) : n \in { -1, 0, 1, 2, 9, 16, 17, 720, 1600 } }

\* command lines: every range boundary of fov, theta, phi and quality,
\* alone and together; every combination of small sizes; every
\* interpolation method, with and without --verbose and an extension
\* OpenCV cannot encode
CliArgs ==
  { Cli(f, t, p, Some(2), NoneInt, "bilinear", q, FALSE, "views/view.jpg") :
      f \in {0, 1, 180, 181}, t \in {-181, -180, 180, 181},
      p \in {-91, -90, 90, 91}, q \in {0, 1, 100, 101} }
  \cup { Cli(90, 0, 0, w, h, "nearest", 95, v, "views/view.jpg") :
           w \in { NoneInt, Some(-1), Some(0), Some(1), Some(2) },
           h \in { NoneInt, Some(-1), Some(0), Some(1), Some(2) },
           v \in BOOLEAN }
  \cup { Cli(60, 90, 30, Some(1), Some(1), ip, 95, v, out) :
           ip \in { "nearest", "bilinear", "bicubic", "lanczos" },
           v \in BOOLEAN, out \in { "views/view.jpg", "views/view.xyz" } }

\* an installation with the panorama in place and the output directory
\* writable
GoodHost ==
  [decoder |-> "OpenCV",
   files |-> [NoFiles.files EXCEPT
                !["."] = Dir(TRUE),
                !["pano.jpg"] = File(TRUE, Encoded("jpeg", ImgGradient)),
                !["views"] = Dir(TRUE)]]

\* the installations the command runs on: each decoder with each thing the
\* panorama path can name by the time it is loaded, and each state of the
\* output directory and of the output file
CliHosts ==
  { [GoodHost EXCEPT !.decoder = d, !.files["pano.jpg"] = node] :
      d \in Decoders, node \in PanoNodes }
  \cup { [GoodHost EXCEPT !.files["."] = Dir(cw), !.files["views"] = dir,
                          !.files["views/view.jpg"] = out] :
           cw \in BOOLEAN, dir \in { Absent, Dir(TRUE), Dir(FALSE) },
           out \in { Absent, File(TRUE, Encoded("jpeg", ImgPixel)),
                     [File(TRUE, Encoded("jpeg", ImgPixel))
                        EXCEPT !.writable = FALSE] } }


\* ------------------------------------------------------------------------
\* State
\* ------------------------------------------------------------------------

VARIABLES
  equ,     \* the Equirectangular instance (_img, _height, _width), if any
  built,   \* the instance as __init__ returned it
  hist,    \* the calls made so far, in order: [op, args, out]
  stats,   \* profiling._global_stats: [entries, enabled]
  thr,     \* per thread inside get_perspective: [pc, args, out]
  frames,  \* the local variables of the get_perspective activations
  environ, \* os.environ, at the key EQUIREC2PERSPEC_PROFILE: [set, value]
  refs,    \* the object profiling._global_stats names (global), the
           \* references get_profiling_stats has handed out (held), and
           \* the objects it named before (old)
  host,    \* the installation: the decoder load_image uses (decoder) and
           \* what each path names (files)
  running  \* per thread, the profiled functions and blocks that have
           \* started and not completed, the innermost last: [name, timed]

vars == << equ, built, hist, stats, thr, frames, arch, environ, refs, host, running >>

CallRec(op, args, out) == [op |-> op, args |-> args, out |-> out]

NoArgs == Args(0, 0, 0, 0, 0, "")

NoResult == [exc |-> "pending"]

\* the local variables of one activation of get_perspective
NoFrame == [a |-> NoArgs, K_inv |-> << >>, xyz |-> << >>, R |-> << >>,
            XY |-> << >>]

\* the intermediate values kept in one place for all activations (module
\* level variables, or attributes of the instance): a faulty variant
FrameOfShared(t) == 1

\* every activation of get_perspective has its own local variables
FrameOf(t) == t

\* the instances that can be built from decoded panoramas
Instances == { EquirectangularInit(img).val : img \in SourceImages }

\* after import: _global_stats = ProfilingStats(), with no entries and
\* enabled as the environment variable EQUIREC2PERSPEC_PROFILE says
StatsInit ==
  /\ environ \in { EnvUnset, EnvSet(<< "1" >>) }
  /\ stats = ProfilingStatsInit(environ)
  /\ refs = [global |-> 1, held |-> << >>, old |-> << >>]

ThreadsInit ==
  /\ thr = [t \in Threads |-> [pc |-> "idle", args |-> NoArgs,
                               out |-> NoResult]]
  /\ frames = [t \in Threads |-> NoFrame]
  /\ running = [t \in Threads |-> << >>]

\* before any instance exists
InitNone ==
  /\ equ = NoInstance
  /\ built = NoInstance
  /\ hist = << >>
  /\ StatsInit
  /\ ThreadsInit
  /\ arch \in Archs
  /\ host = NoFiles

\* after Equirectangular(img_name) has returned
InitBuilt ==
  /\ equ \in Instances
  /\ built = equ
  /\ hist = << >>
  /\ StatsInit
  /\ ThreadsInit
  /\ arch \in Archs
  /\ host = NoFiles

\* ------------------------------------------------------------------------
\* Actions
\* ------------------------------------------------------------------------

\* Equirectangular(img_name), load_image returning the array img
Construct(img) ==
  /\ equ = NoInstance
  /\ LET r == EquirectangularInit(img)
     IN  /\ equ' = IF r.exc = "none" THEN r.val ELSE equ
         /\ built' = equ'
         /\ hist' = Append(hist, CallRec("__init__", img, r))
  /\ UNCHANGED << stats, thr, frames, arch, environ, refs, host, running >>

\* equ.get_perspective(FOV, THETA, PHI, height, width, interpolation)
GetPerspective(a) ==
  /\ equ # NoInstance
  /\ LET Returned(out) ==
           /\ hist' = Append(hist, CallRec("get_perspective", a, out))
           /\ equ' = GpSelfAfter(equ, out)
     IN  Returned(get_perspective(equ, a.FOV, a.THETA, a.PHI, a.height,
                                  a.width, a.interpolation))
  /\ UNCHANGED << built, stats, thr, frames, arch, environ, refs, host, running >>

\* validate_perspective_params(FOV, THETA, PHI, height, width)
ValidateParams(a) ==
  /\ hist' = Append(hist,
                    CallRec("validate_perspective_params", a,
                            validate_perspective_params(a.FOV, a.THETA,
                                                        a.PHI, a.height,
                                                        a.width)))
  /\ UNCHANGED << equ, built, stats, thr, frames, arch, environ, refs, host, running >>

\* a call of a component decorated with profile(name), that took d ticks
\* of the performance counter
ProfiledCall(name, args, out, d) ==
  /\ hist' = Append(hist, CallRec(name, args, out))
  /\ stats' = ProfileWrapper(stats, name, d)
  /\ UNCHANGED << equ, built, thr, frames, arch, environ, refs, host, running >>

CallBuildCameraMatrix(FOV, width, height, d) ==
  ProfiledCall("build_camera_matrix", << FOV, width, height >>,
               build_camera_matrix(FOV, width, height), d)

CallGenerate3dCoordinates(width, height, K_inv, d) ==
  ProfiledCall("generate_3d_coordinates", << width, height, K_inv >>,
               Ok(generate_3d_coordinates(width, height, K_inv)), d)

CallComputeRotationMatrices(THETA, PHI, d) ==
  ProfiledCall("compute_rotation_matrices", << THETA, PHI >>,
               Ok(compute_rotation_matrices(THETA, PHI)), d)

CallApplyTransformationsAndRemap(xyz, R, source_image, interpolation, d) ==
  ProfiledCall("apply_transformations_and_remap",
               << xyz, R, source_image, interpolation >>,
               apply_transformations_and_remap(xyz, R, source_image,
                                               interpolation), d)

\* xyz2lonlat(xyz), on an array of rays
CallXyz2lonlat(xyz) ==
  /\ hist' = Append(hist, CallRec("xyz2lonlat", xyz, Ok(xyz2lonlatArray(xyz))))
  /\ UNCHANGED << equ, built, stats, thr, frames, arch, environ, refs, host, running >>

\* lonlat2XY(lonlat, shape), on an array of (longitude, latitude) pairs
CallLonlat2XY(lonlat, shape) ==
  /\ hist' = Append(hist, CallRec("lonlat2XY", << lonlat, shape >>,
                                  Ok(lonlat2XYArray(lonlat, shape))))
  /\ UNCHANGED << equ, built, stats, thr, frames, arch, environ, refs, host, running >>

\* the resampling step: cv2.remap(src, map_x, map_y, interpolation,
\* borderMode=cv2.BORDER_WRAP) with the maps XY
CallRemap(src, XY, interp) ==
  /\ hist' = Append(hist, CallRec("cv2.remap", << src, XY, interp >>,
                                  Remap(src, XY, interp)))
  /\ UNCHANGED << equ, built, stats, thr, frames, arch, environ, refs, host, running >>


\* profile(name)(func)(...)
CallProfiled(name, func, body, d) ==
  /\ LET Returned(r) ==
           /\ hist' = Append(hist, CallRec("profile", << name, func, body >>,
                                           r.out))
           /\ stats' = r.stats
     IN  Returned(wrapper(stats, operation_name(name, func), body, d))
  /\ UNCHANGED << equ, built, thr, frames, arch, environ, refs, host, running >>

\* with profile_block(name): ...
CallProfileBlock(name, body, d) ==
  /\ LET Returned(r) ==
           /\ hist' = Append(hist, CallRec("profile_block", << name, body >>,
                                           r.out))
           /\ stats' = r.stats
     IN  Returned(profile_block(stats, name, body, d))
  /\ UNCHANGED << equ, built, thr, frames, arch, environ, refs, host, running >>

\* get_profiling_stats().enabled = b
SetEnabled(b) ==
  /\ stats.enabled # b
  /\ stats' = [stats EXCEPT !.enabled = b]
  /\ UNCHANGED << equ, built, hist, thr, frames, arch, environ, refs, host, running >>

\* get_profiling_stats().add_entry(name, d)
CallAddEntry(name, d) ==
  /\ hist' = Append(hist, CallRec("add_entry", << name, d >>, Ok(0)))
  /\ stats' = add_entry(stats, name, d)
  /\ UNCHANGED << equ, built, thr, frames, arch, environ, refs, host, running >>

\* ref.clear(), on a reference get_profiling_stats handed out before
CallClear(i) ==
  /\ hist' = Append(hist, CallRec("clear", refs.held[i], Ok(0)))
  /\ IF refs.held[i] = refs.global
     THEN stats' = clear(stats) /\ refs' = refs
     ELSE /\ stats' = stats
          /\ refs' = [refs EXCEPT !.old[refs.held[i]] = clear(@)]
  /\ UNCHANGED << equ, built, thr, frames, arch, environ, host, running >>

\* reset_profiling_stats()
CallResetProfilingStats ==
  /\ hist' = Append(hist, CallRec("reset_profiling_stats", << >>, Ok(0)))
  /\ LET Returned(r) == stats' = r.stats /\ refs' = r.refs
     IN  Returned(reset_profiling_stats(stats, refs))
  /\ UNCHANGED << equ, built, thr, frames, arch, environ, host, running >>

\* ref = get_profiling_stats()
CallGetProfilingStats ==
  /\ Len(refs.held) < MaxHeld
  /\ hist' = Append(hist, CallRec("get_profiling_stats", << >>,
                                  Ok(get_profiling_stats(refs))))
  /\ refs' = [refs EXCEPT !.held = Append(@, get_profiling_stats(refs))]
  /\ UNCHANGED << equ, built, stats, thr, frames, arch, environ, host, running >>

\* os.environ["EQUIREC2PERSPEC_PROFILE"] = value, or del os.environ[...]
SetEnviron(e) ==
  /\ environ # e
  /\ environ' = e
  /\ UNCHANGED << equ, built, hist, stats, thr, frames, arch, refs, host, running >>

\* is_profiling_enabled()
CallIsProfilingEnabled ==
  /\ hist' = Append(hist, CallRec("is_profiling_enabled", environ,
                                  Ok(is_profiling_enabled(environ))))
  /\ UNCHANGED << equ, built, stats, thr, frames, arch, environ, refs, host, running >>
\* the local variables of the activation that thread t runs
Local(t) == frames[FrameOf(t)]

Goto(t, pc) == thr' = [thr EXCEPT ![t].pc = pc]

Return(t, out) == thr' = [thr EXCEPT ![t].pc = "done", ![t].out = out]

SetLocals(t, f) == frames' = [frames EXCEPT ![FrameOf(t)] = f]

\* thread t enters get_perspective: the arguments are bound
ThreadCall(t, a) ==
  /\ thr[t].pc = "idle"
  /\ thr' = [thr EXCEPT ![t].pc = "validate", ![t].args = a]
  /\ SetLocals(t, [Local(t) EXCEPT !.a = a])
  /\ UNCHANGED << equ, built, hist, stats, arch, environ, refs, host, running >>

\* the argument checks
ThreadValidate(t) ==
  /\ thr[t].pc = "validate"
  /\ LET a   == Local(t).a
         chk == GpValidate(a.FOV, a.THETA, a.PHI, a.height, a.width)
     IN  IF chk.exc # "none" THEN Return(t, chk) ELSE Goto(t, "camera")
  /\ UNCHANGED << equ, built, hist, stats, frames, arch, environ, refs, host, running >>

\* f, cx, cy, K, K_inv
ThreadCamera(t) ==
  /\ thr[t].pc = "camera"
  /\ LET Inverted(cam) ==
           IF cam.exc # "none"
           THEN Return(t, cam) /\ UNCHANGED frames
           ELSE /\ Goto(t, "rays")
                /\ SetLocals(t, [Local(t) EXCEPT !.K_inv = cam.val])
     IN  Inverted(GpCamera(Local(t).a.FOV, Local(t).a.width,
                           Local(t).a.height))
  /\ UNCHANGED << equ, built, hist, stats, arch, environ, refs, host, running >>

\* x, y, z, xyz = xyz @ K_inv.T
ThreadRays(t) ==
  /\ thr[t].pc = "rays"
  /\ LET f == Local(t)
     IN  SetLocals(t, [f EXCEPT !.xyz = GpRays(f.a.width, f.a.height, f.K_inv)])
  /\ Goto(t, "rotate")
  /\ UNCHANGED << equ, built, hist, stats, arch, environ, refs, host, running >>

\* R1, R2, R = R2 @ R1
ThreadRotate(t) ==
  /\ thr[t].pc = "rotate"
  /\ LET f == Local(t)
     IN  SetLocals(t, [f EXCEPT !.R = RotationOf(f.a.THETA, f.a.PHI)])
  /\ Goto(t, "map")
  /\ UNCHANGED << equ, built, hist, stats, arch, environ, refs, host, running >>

\* xyz @ R.T, lonlat, XY: reads the shape of self._img
ThreadMap(t) ==
  /\ thr[t].pc = "map"
  /\ LET f == Local(t)
     IN  SetLocals(t, [f EXCEPT !.XY = GpMap(f.xyz, f.R, equ._img.shape)])
  /\ Goto(t, "remap")
  /\ UNCHANGED << equ, built, hist, stats, arch, environ, refs, host, running >>

\* cv2.remap reads self._img; the result is returned
ThreadRemap(t) ==
  /\ thr[t].pc = "remap"
  /\ LET f == Local(t)
     IN  Return(t, Remap(equ._img, f.XY, f.a.interpolation))
  /\ UNCHANGED << equ, built, hist, stats, frames, arch, environ, refs, host, running >>

\* load_image(path), called on its own
CallLoadImage(path) ==
  /\ hist' = Append(hist,
       [op |-> "load_image", args |-> path,
        out |-> load_image(path, host.files, host.decoder).out,
        calls |-> load_image(path, host.files, host.decoder).calls])
  /\ UNCHANGED << equ, built, stats, thr, frames, arch, environ, refs, host, running >>

\* Equirectangular(img_name) on a path
CallEquirectangular(img_name) ==
  /\ equ = NoInstance
  /\ \A r \in { Equirectangular(img_name, host.files, host.decoder) } :
       /\ equ' = IF r.exc = "none" THEN r.val ELSE equ
       /\ built' = equ'
       /\ hist' = Append(hist, CallRec("Equirectangular", img_name, r))
  /\ UNCHANGED << stats, thr, frames, arch, environ, refs, host, running >>


\* _calculate_dimensions(width, height), called on its own
CallCalculateDimensions(width, height) ==
  /\ hist' = Append(hist,
                    CallRec("_calculate_dimensions",
                            [width |-> width, height |-> height],
                            _calculate_dimensions(width, height)))
  /\ UNCHANGED << equ, built, stats, thr, frames, arch, environ, refs, host, running >>

\* main, lines 195 and 203: what equ.get_perspective returns or raises, in
\* the runs that reach it
MainView(a, files, decoder) ==
  IF /\ Equirectangular(a.input_path, files, decoder).exc = "none"
     /\ _calculate_dimensions(a.width, a.height).exc = "none"
  THEN get_perspective(Equirectangular(a.input_path, files, decoder).val,
                       a.fov, a.theta, a.phi,
                       _calculate_dimensions(a.width, a.height).val[2],
                       _calculate_dimensions(a.width, a.height).val[1],
                       _get_interpolation_method(a.interpolation).val)
  ELSE NoResult

\* one run of the command: main on the parameters of the command line
CallMain(a) ==
  /\ \E view \in { MainView(a, host.files, host.decoder) } :
     \A r \in { main(a, host.files, host.decoder, view) } :
       /\ hist' = Append(hist,
            [op |-> "main", args |-> a, before |-> host.files,
             out |-> [exc |-> r.exc, message |-> r.message,
                      echo |-> r.echo, steps |-> r.steps]])
       /\ host' = [host EXCEPT !.files = r.files]
  /\ UNCHANGED << equ, built, stats, thr, frames, arch, environ, refs,
                  running >>


\* thread t enters a function decorated with profile, or a with
\* profile_block statement
StartProfiled(t, kind, name) ==
  /\ UNCHANGED << equ, built, stats, thr, frames, arch, environ, refs,
                  host >>
  /\ hist' = Append(hist, [op |-> "start", args |-> << t, kind, name >>,
                           enabled |-> stats.enabled,
                           before |-> stats.entries,
                           after |-> stats'.entries])
  /\ running' = [running EXCEPT
                   ![t] = Append(@, Started(stats, name)
                                      @@ [at |-> Len(hist) + 1])]

\* the innermost operation of thread t returns or raises (body), d ticks
\* of the performance counter after it started
CompleteProfiled(t, body, d) ==
  /\ running[t] # << >>
  /\ \E op \in { running[t][Len(running[t])] } :
       /\ stats' = Completed(stats, op, d)
       /\ hist' = Append(hist, [op |-> "complete",
                                args |-> << t, op.name, d >>,
                                out |-> body, at |-> op.at,
                                enabled |-> stats.enabled,
                                before |-> stats.entries,
                                after |-> stats'.entries])
  /\ running' = [running EXCEPT ![t] = SubSeq(@, 1, Len(@) - 1)]
  /\ UNCHANGED << equ, built, thr, frames, arch, environ, refs, host >>


\* ------------------------------------------------------------------------
\* Specifications
\* ------------------------------------------------------------------------

\* one instance, built from a decoded panorama, and calls on it
Next ==
  \/ \E img \in SourceImages : Construct(img)
  \/ Len(hist) < MaxCalls /\ \E a \in FewArgs : GetPerspective(a)

Spec == InitNone /\ [][Next]_vars

\* one call, of get_perspective or of validate_perspective_params, over
\* arguments in and out of range
NextProject ==
  \/ hist = << >> /\ \E a \in ProjectArgs : GetPerspective(a)
  \/ hist = << >> /\ \E a \in ProjectArgs : ValidateParams(a)

SpecProject == InitBuilt /\ [][NextProject]_vars

\* the constructor on whatever array the decoder hands over, and a call on
\* the instance, if there is one
NextInit ==
  \/ hist = << >> /\ \E img \in DecodedArrays : Construct(img)
  \/ Len(hist) = 1 /\ \E a \in FewArgs : GetPerspective(a)

SpecInit == InitNone /\ [][NextInit]_vars

\* the rays and the rotation the components are called with in SpecComp
CompKinv == build_camera_matrix(90, MaxOut, 1).val.K_inv

CompXyz == generate_3d_coordinates(MaxOut, 1, CompKinv)

CompR == compute_rotation_matrices(90, 30)

\* the pipeline components called one after the other, on no instance
NextComp ==
  /\ Len(hist) + 1 < MaxCalls
  /\ \E d \in Durations :
       \/ CallBuildCameraMatrix(90, MaxOut, 1, d)
       \/ CallGenerate3dCoordinates(MaxOut, 1, CompKinv, d)
       \/ CallComputeRotationMatrices(90, 30, d)
       \/ CallApplyTransformationsAndRemap(CompXyz, CompR, ImgGradient,
                                           "INTER_LINEAR", d)

SpecComp == InitNone /\ [][NextComp]_vars

\* build_camera_matrix once, over every field of view
NextCam ==
  /\ hist = << >>
  /\ \E FOV \in 1..180, width \in 1..MaxWidth, height \in {1, MaxOut},
        d \in Durations :
       CallBuildCameraMatrix(FOV, width, height, d)

SpecCam == InitNone /\ [][NextCam]_vars

\* compute_rotation_matrices once, over the grid of angles
NextRot ==
  /\ hist = << >>
  /\ \E THETA \in GridTheta, PHI \in GridPhi, d \in Durations :
       CallComputeRotationMatrices(THETA, PHI, d)

SpecRot == InitNone /\ [][NextRot]_vars

\* threads calling get_perspective on the one instance
NextConc ==
  \E t \in Threads :
    \/ \E a \in ConcArgs : ThreadCall(t, a)
    \/ ThreadValidate(t)
    \/ ThreadCamera(t)
    \/ ThreadRays(t)
    \/ ThreadRotate(t)
    \/ ThreadMap(t)
    \/ ThreadRemap(t)

SpecConc == InitBuilt /\ [][NextConc]_vars

\* one call of a coordinate transform
NextGeo ==
  \/ /\ hist = << >>
     /\ \E v \in Rays, k \in 1..MaxScale, m \in 1..2 :
          CallXyz2lonlat(RayArray(v, k, m))
  \/ /\ hist = << >>
     /\ \E q \in LonSteps, r \in LatSteps, shape \in SrcShapes :
          CallLonlat2XY(<< << << AngleOf(q), AngleOf(r) >> >> >>, shape)

SpecGeo == InitNone /\ [][NextGeo]_vars


\* the coordinate transforms and the resampling step on zero-length rays,
\* and the resampling step once more with the arguments of the first call
NextDegenerate ==
  \/ hist = << >> /\ \E xyz \in DegenerateRays : CallXyz2lonlat(xyz)
  \/ /\ hist = << >>
     /\ \E xyz \in DegenerateRays, shape \in { << 3, 4 >>, << 1, 1 >> } :
          CallLonlat2XY(xyz2lonlatArray(xyz), shape)
  \/ \E xyz \in DegenerateRays, R \in { Eye3, CompR },
        img \in SourceImages, interp \in Interps, d \in Durations :
       /\ \/ hist = << >>
          \/ /\ hist # << >>
             /\ Len(hist) + 1 < MaxCalls
             /\ hist[1].op = "apply_transformations_and_remap"
             /\ hist[1].args = << xyz, R, img, interp >>
       /\ CallApplyTransformationsAndRemap(xyz, R, img, interp, d)

SpecDegenerate == InitNone /\ [][NextDegenerate]_vars


\* the resampling step once, sampling in and around the source image
NextRemap ==
  /\ hist = << >>
  /\ \E src \in SourceImages, interp \in Interps :
       \E X \in SampleCoords(src.shape[2], 1),
          Y \in SampleCoords(src.shape[1], 2) :
         CallRemap(src, << << << X, Y >> >> >>, interp)

SpecRemap == InitNone /\ [][NextRemap]_vars


\* an instance built from img
InitView ==
  /\ equ \in { EquirectangularInit(img).val : img \in ViewImages }
  /\ built = equ
  /\ hist = << >>
  /\ StatsInit
  /\ ThreadsInit
  /\ arch \in Archs
  /\ host = NoFiles

\* a view with THETA = 0, then the view that differs from it in THETA
\* alone
NextView ==
  \E a \in ThetaArgs :
    /\ \/ hist = << >> /\ a.THETA = 0
       \/ /\ Len(hist) = 1
          /\ a.THETA # 0
          /\ a = [hist[1].args EXCEPT !.THETA = a.THETA]
    /\ GetPerspective(a)

SpecView == InitView /\ [][NextView]_vars


\* profiled functions and blocks, with the statistics enabled or not
NextWrap ==
  \/ /\ Len(hist) < MaxProfiled
     /\ \E name \in ProfileNames, func \in Funcs, body \in Bodies,
           d \in Durations : CallProfiled(name, func, body, d)
  \/ /\ Len(hist) < MaxProfiled
     /\ \E name \in BlockNames, body \in Bodies, d \in Durations :
          CallProfileBlock(name, body, d)
  \/ \E b \in BOOLEAN : SetEnabled(b)

SpecWrap == InitNone /\ [][NextWrap]_vars


\* the global statistics used directly: entries added, the entries
\* cleared, through a reference or by reset, and references obtained
NextGlobal ==
  \/ /\ Len(hist) < MaxCalls
     /\ \E name \in EntryNames, d \in Durations : CallAddEntry(name, d)
  \/ Len(hist) < MaxCalls /\ \E i \in DOMAIN refs.held : CallClear(i)
  \/ Len(hist) < MaxCalls /\ CallResetProfilingStats
  \/ Len(hist) < MaxCalls /\ CallGetProfilingStats

SpecGlobal == InitNone /\ [][NextGlobal]_vars


\* after import, with whatever the environment held then
InitEnv ==
  /\ equ = NoInstance
  /\ built = NoInstance
  /\ hist = << >>
  /\ environ \in EnvValues
  /\ stats = ProfilingStatsInit(environ)
  /\ refs = [global |-> 1, held |-> << >>, old |-> << >>]
  /\ ThreadsInit
  /\ arch \in Archs
  /\ host = NoFiles

\* the environment variable and the flag changed, and profiled functions
\* called
NextEnv ==
  \/ \E e \in EnvValues : SetEnviron(e)
  \/ \E b \in BOOLEAN : SetEnabled(b)
  \/ Len(hist) < MaxProfiled /\ CallIsProfilingEnabled
  \/ /\ Len(hist) < MaxProfiled
     /\ \E func \in Funcs, body \in Bodies, d \in Durations :
          CallProfiled(Str("test_function"), func, body, d)

SpecEnv == InitEnv /\ [][NextEnv]_vars


\* the statistics enabled at import
InitStats ==
  /\ InitNone
  /\ stats.enabled
  /\ arch = "x86_64"

\* entries of float durations added to the statistics, and the entries
\* cleared
NextStats ==
  \/ /\ Len(hist) < MaxEntries
     /\ \E name \in EntryNames, d \in FloatDurations : CallAddEntry(name, d)
  \/ Len(hist) < MaxEntries /\ stats.entries # << >> /\ CallResetProfilingStats

SpecStats == InitStats /\ [][NextStats]_vars


\* load_image and the constructor on a path that names nothing, a
\* directory or a file, under each decoder
InitLoad ==
  /\ equ = NoInstance
  /\ built = NoInstance
  /\ hist = << >>
  /\ StatsInit
  /\ ThreadsInit
  /\ arch = "x86_64"
  /\ \E decoder \in Decoders, node \in PanoNodes :
       host = [decoder |-> decoder,
               files |-> [NoFiles.files EXCEPT !["pano.jpg"] = node]]

NextLoad ==
  \/ Len(hist) < MaxLoads /\ CallLoadImage("pano.jpg")
  \/ Len(hist) < MaxLoads /\ CallEquirectangular("pano.jpg")

SpecLoad == InitLoad /\ [][NextLoad]_vars


\* a process that runs the command once, or calls _calculate_dimensions.
\* A view of more than MaxOut pixels a side is not computed.
InitCli ==
  /\ equ = NoInstance
  /\ built = NoInstance
  /\ hist = << >>
  /\ environ = EnvUnset
  /\ stats = ProfilingStatsInit(environ)
  /\ refs = [global |-> 1, held |-> << >>, old |-> << >>]
  /\ ThreadsInit
  /\ arch = "x86_64"
  /\ host \in CliHosts

NextCli ==
  \/ /\ hist = << >>
     /\ \E width \in OptionalSizes, height \in OptionalSizes :
          CallCalculateDimensions(width, height)
  \/ /\ hist = << >>
     /\ \E a \in CliArgs :
          /\ \A d \in { _calculate_dimensions(a.width, a.height) } :
               d.exc = "none" => d.val[1] <= MaxOut /\ d.val[2] <= MaxOut
          /\ CallMain(a)

SpecCli == InitCli /\ [][NextCli]_vars


\* compute_rotation_matrices once, over the grid of angles, with profiling
\* off
InitCompose ==
  /\ InitNone
  /\ environ = EnvUnset
  /\ arch = "x86_64"

SpecCompose == InitCompose /\ [][NextRot]_vars


\* fields of view from the narrowest to the widest accepted
GridFov == { 1, 2, 179, 180 } \cup { 5 * i : i \in 1..35 }

\* the ray field of one output size, from the inverse of the camera matrix
\* of one FOV, with profiling off
NextRays ==
  /\ hist = << >>
  /\ \E FOV \in GridFov, width \in 1..MaxWidth, height \in 1..MaxOut :
       CallGenerate3dCoordinates(width, height,
                                 GpCamera(FOV, width, height).val, 0)

SpecRays == InitCompose /\ [][NextRays]_vars


\* lonlat2XY once, on the longitude and latitude of a ray as xyz2lonlat
\* gives them (the path of get_perspective), and on the ends and the
\* quarter points of the two ranges
NextPixels ==
  \/ /\ hist = << >>
     /\ \E v \in Rays \ { << 0, 0, 0 >> }, shape \in SrcShapes :
          CallLonlat2XY(xyz2lonlatArray(RayArray(v, 1, 1)), shape)
  \/ /\ hist = << >>
     /\ \E q \in -4..4, r \in -2..2, shape \in SrcShapes :
          CallLonlat2XY(<< << << AngleOf(q), AngleOf(r) >> >> >>, shape)

SpecPixels == InitCompose /\ [][NextPixels]_vars


\* two calls on the same arguments, each of get_perspective or of
\* validate_perspective_params, in either order
InitEquiv == InitBuilt /\ arch = "x86_64" /\ environ = EnvUnset

SameArgs == IF hist = << >> THEN ProjectArgs ELSE { hist[1].args }

NextEquiv ==
  \/ Len(hist) <= 1 /\ \E a \in SameArgs : GetPerspective(a)
  \/ Len(hist) <= 1 /\ \E a \in SameArgs : ValidateParams(a)

SpecEquiv == InitEquiv /\ [][NextEquiv]_vars


\* the names operations are profiled under, by the decorator and by the
\* context manager
StepNames ==
  { << "profile", operation_name(name, func) >> :
      name \in ProfileNames, func \in Funcs }
    \cup { << "profile_block", "test_block" >> }

\* the main thread starts and completes profiled functions and blocks,
\* one after or inside the other; in between, the code that runs (the
\* body of the operation under way, or the caller) sets and clears the
\* flag and resets the statistics
InitSteps == InitNone /\ arch = "x86_64" /\ environ = EnvUnset

NextSteps ==
  \/ /\ Len(hist) < MaxSteps
     /\ \E kn \in StepNames : StartProfiled(1, kn[1], kn[2])
  \/ /\ Len(hist) < MaxSteps
     /\ \E body \in Bodies : CompleteProfiled(1, body, 2)
  \/ \E b \in BOOLEAN : SetEnabled(b)
  \/ Len(hist) < MaxSteps /\ CallResetProfilingStats

SpecSteps == InitSteps /\ [][NextSteps]_vars


\* ------------------------------------------------------------------------
\* Properties
\* ------------------------------------------------------------------------

\* the positions in hist of the calls of op
CallsOf(op) == { i \in DOMAIN hist : hist[i].op = op }

\* the documented ranges of the arguments of get_perspective
InRange(a) ==
  /\ 1 <= a.FOV /\ a.FOV <= 180
  /\ -180 <= a.THETA /\ a.THETA <= 180
  /\ -90 <= a.PHI /\ a.PHI <= 90
  /\ a.height > 0
  /\ a.width > 0

\* a parameter is outside its documented range
OutOfRange(a, name) ==
  CASE name = "FOV"    -> a.FOV < 1 \/ a.FOV > 180
    [] name = "THETA"  -> a.THETA < -180 \/ a.THETA > 180
    [] name = "PHI"    -> a.PHI < -90 \/ a.PHI > 90
    [] name = "height" -> a.height <= 0
    [] name = "width"  -> a.width <= 0

\* the documented range of a parameter, as the message words it
RangeText(name) ==
  CASE name = "FOV"    -> "1 and 180"
    [] name = "THETA"  -> "-180 and 180"
    [] name = "PHI"    -> "-90 and 90"
    [] name = "height" -> "greater than 0"
    [] name = "width"  -> "greater than 0"

ParamNames == { "FOV", "THETA", "PHI", "height", "width" }

\* what `except ValueError` catches: numpy.linalg.LinAlgError is a subclass
IsValueError(out) == out.exc \in { "ValueError", "LinAlgError" }

\* 1e-6 and -0.9 in binary32
Tol6 == [k |-> "num", m |-> 8796093, e |-> -43]

FMinus09 == [k |-> "num", m |-> -15099494, e |-> -24]

Near(a, b) == FLe(FAbs(FSub(a, b)), Tol6)

NearEye3(P) == \A i \in 1..3, j \in 1..3 : Near(P[i][j], Eye3[i][j])

\* the forward vector (0, 0, 1)
Forward == << FZero, FZero, FOne >>

\* C1: a call of get_perspective whose arguments are in range (the
\* boundaries FOV = 1 and 180, THETA = -180 and 180, PHI = -90 and 90,
\* height = width = 1 among them), with any of the four interpolation
\* selectors, returns an array of shape exactly (height, width, 3), that is
\* height rows of width pixels of 3 channels, of the source's pixel type.
C1_Shape ==
  \A i \in CallsOf("get_perspective") :
    \A c \in { hist[i] } :
      InRange(c.args) =>
        /\ c.out.exc = "none"
        /\ c.out.val.shape = << c.args.height, c.args.width, 3 >>
        /\ c.out.val.dtype = equ._img.dtype
        /\ DOMAIN c.out.val.px = 1..c.args.height
        /\ \A r \in 1..c.args.height :
             /\ DOMAIN c.out.val.px[r] = 1..c.args.width
             /\ \A x \in 1..c.args.width : Len(c.out.val.px[r][x]) = 3

\* a call at every boundary at once returned its 1 x 1 view
C1_Witness ==
  \E i \in CallsOf("get_perspective") :
    /\ hist[i].args = Args(180, -180, 90, 1, 1, "INTER_LANCZOS4")
    /\ hist[i].out.exc = "none"
    /\ hist[i].out.val.shape = << 1, 1, 3 >>

\* C2: get_perspective and validate_perspective_params raise a ValueError
\* if and only if FOV is outside [1, 180], THETA outside [-180, 180], PHI
\* outside [-90, 90], height <= 0 or width <= 0; the message names a
\* parameter that is out of range, contains the range documented for it
\* ("1 and 180" for FOV, "greater than 0" for height) and ends with the
\* value refused.
C2_Validation ==
  \A i \in CallsOf("get_perspective")
           \cup CallsOf("validate_perspective_params") :
    \A c \in { hist[i] } :
      /\ IsValueError(c.out) <=> ~InRange(c.args)
      /\ IsValueError(c.out) =>
           \E name \in ParamNames :
             /\ c.out.text[1] = name
             /\ OutOfRange(c.args, name)
             /\ \E k \in DOMAIN c.out.text : c.out.text[k] = RangeText(name)
             /\ c.out.got = c.args[name]

\* get_perspective refused FOV = 200 with a message that has "1 and 180"
C2_Witness ==
  \E i \in CallsOf("get_perspective") :
    /\ hist[i].args.FOV = 200
    /\ hist[i].out.exc = "ValueError"
    /\ hist[i].out.text[1] = "FOV"
    /\ hist[i].out.text[3] = "1 and 180"

\* C3: two calls of get_perspective on the one instance with identical
\* arguments return identical arrays, element by element, whatever calls
\* (with other arguments, returning or raising) were made between them.
C3_Deterministic ==
  \A i \in CallsOf("get_perspective"), j \in CallsOf("get_perspective") :
    hist[i].args = hist[j].args => hist[i].out = hist[j].out

\* the same view was computed twice, with a call that raised in between
C3_Witness ==
  \E i \in CallsOf("get_perspective"), j \in CallsOf("get_perspective") :
    /\ j = i + 2
    /\ hist[i].args = hist[j].args
    /\ hist[i].out.exc = "none"
    /\ hist[i + 1].out.exc = "ValueError"

\* C4: after any sequence of get_perspective calls, returning or raising,
\* the instance's image, stored height and stored width are what __init__
\* left; and every call returned what it returns on the instance as
\* __init__ left it, so no earlier call, failed or not, shows in a later
\* one.
C4_Frame ==
  /\ equ = built
  /\ built # NoInstance =>
       /\ equ._img = built._img
       /\ equ._height = built._img.shape[1]
       /\ equ._width = built._img.shape[2]
  /\ \A i \in CallsOf("get_perspective") :
       \A a \in { hist[i].args } :
         hist[i].out = get_perspective(built, a.FOV, a.THETA, a.PHI,
                                       a.height, a.width, a.interpolation)

\* a call that raised was followed by a call that returned a view
C4_Witness ==
  \E i \in CallsOf("get_perspective"), j \in CallsOf("get_perspective") :
    /\ i < j
    /\ hist[i].out.exc = "ValueError"
    /\ hist[j].out.exc = "none"
    /\ equ._height = 3

\* an array that is not a panorama: not three-dimensional, not of three
\* channels, or of no rows or no columns
Malformed(img) ==
  \/ Len(img.shape) # 3
  \/ img.shape[3] # 3
  \/ img.shape[1] = 0
  \/ img.shape[2] = 0

\* C5: the constructor refuses every malformed array with a ValueError, so
\* that no instance is obtained from one: an array that is not of exactly
\* three channels, and an array with a dimension of 0.  (__init__ tests the
\* number of dimensions and of channels only: an array of shape (0, w, 3)
\* or (h, 0, 3) is accepted.)
C5_MalformedRefused ==
  \A i \in CallsOf("__init__") :
    Malformed(hist[i].args) =>
      /\ hist[i].out.exc = "ValueError"
      /\ equ = NoInstance

\* the pipeline components, by the names they are profiled under
Components ==
  { "build_camera_matrix", "generate_3d_coordinates",
    "compute_rotation_matrices", "apply_transformations_and_remap" }

\* the step is a call of a pipeline component
ComponentCall ==
  /\ Len(hist') = Len(hist) + 1
  /\ hist'[Len(hist')].op \in Components

\* C6 as stated: a call of a component leaves all process-wide state
\* unchanged in every configuration, profiling enabled or not.
C6_NoEffect ==
  [][ComponentCall => UNCHANGED << equ, built, stats, thr, frames >>]_vars

\* C6 as the code has it: a component returns the same result for the same
\* arguments whatever was called before; with profiling disabled a call
\* leaves all process-wide state unchanged; with profiling enabled it
\* appends one entry, of the component's name and a duration, to the
\* entries of the global statistics, and changes nothing else.
C6_EffectIsOneEntry ==
  [][ComponentCall =>
       \A c \in { hist'[Len(hist')] } :
         /\ UNCHANGED << equ, built, thr, frames >>
         /\ stats'.enabled = stats.enabled
         /\ IF stats.enabled
            THEN \E d \in Durations :
                   stats'.entries =
                     Append(stats.entries, [name |-> c.op, duration |-> d])
            ELSE stats'.entries = stats.entries
         /\ \A i \in DOMAIN hist :
              (hist[i].op = c.op /\ hist[i].args = c.args) =>
                hist[i].out = c.out]_vars

\* with profiling enabled, two calls of components have been recorded
C6_Witness ==
  /\ stats.enabled
  /\ Len(hist) = 2
  /\ hist[2].op = "compute_rotation_matrices"
  /\ Len(stats.entries) = 2
  /\ stats.entries[2].name = "compute_rotation_matrices"

\* C7: under every interleaving of the threads, a call of get_perspective
\* returns exactly what it returns for its arguments when it runs alone on
\* the instance, and the instance stays as it was built.
C7_Independent ==
  /\ equ = built
  /\ \A t \in Threads :
       thr[t].pc = "done" =>
         \A a \in { thr[t].args } :
           thr[t].out = get_perspective(built, a.FOV, a.THETA, a.PHI,
                                        a.height, a.width, a.interpolation)

\* two threads have returned the views of two different orientations
C7_Witness ==
  \E t \in Threads, u \in Threads :
    /\ thr[t].pc = "done" /\ thr[u].pc = "done"
    /\ thr[t].args.THETA # thr[u].args.THETA
    /\ thr[t].out.exc = "none" /\ thr[u].out.exc = "none"

\* C8: for every FOV in [1, 180], 180 itself among them, and every
\* width > 0 the focal length is finite and strictly positive, K is
\* [[f, 0, cx], [0, f, cy], [0, 0, 1]] and is invertible (K times the
\* inverse returned is the identity within 1e-6, every entry of the inverse
\* finite), and neither build_camera_matrix nor the same computation
\* inside get_perspective raises.
C8_FocalLength ==
  \A i \in CallsOf("build_camera_matrix") :
    \A c \in { hist[i] } :
      \A f \in { FocalLength(c.args[1], c.args[2]) } :
        /\ IsFinite(f) /\ f.m > 0
        /\ c.out.exc = "none"
        /\ c.out.val.K[1] = << f, FZero, c.out.val.K[1][3] >>
        /\ c.out.val.K[2] = << FZero, f, c.out.val.K[2][3] >>
        /\ c.out.val.K[3] = << FZero, FZero, FOne >>
        /\ \A r \in 1..3, s \in 1..3 : IsFinite(c.out.val.K_inv[r][s])
        /\ NearEye3(MatMul(c.out.val.K, c.out.val.K_inv))
        /\ \A g \in { GpCamera(c.args[1], c.args[2], c.args[3]) } :
             g.exc = "none" /\ g.val = c.out.val.K_inv

\* the camera matrix of FOV = 180 was built and inverted
C8_Witness ==
  \E i \in CallsOf("build_camera_matrix") :
    /\ hist[i].args[1] = 180
    /\ hist[i].out.exc = "none"
    /\ hist[i].out.val.K[1][1].m > 0

C10_ProperRotation ==
  \A i \in CallsOf("compute_rotation_matrices") :
    \A R \in { hist[i].out.val } :
      /\ R = RotationOf(hist[i].args[1], hist[i].args[2])
      /\ NearEye3(MatMul(R, MatT(R)))
      /\ Near(Det3(R), FOne)

\* the rotation of THETA = 45, PHI = 30 was computed: a turn about both
\* axes, with a first row of three entries other than 0
C10_Witness ==
  \E i \in CallsOf("compute_rotation_matrices") :
    /\ hist[i].args = << 45, 30 >>
    /\ \A s \in 1..3 : hist[i].out.val[1][s].m # 0
\* pi/4 in binary32
FQuarterPi == [k |-> "num", m |-> 13176795, e |-> -24]

NearPair(p, q) == Near(p[1], q[1]) /\ Near(p[2], q[2])

\* C11: xyz2lonlat returns an array of the input's leading dimensions and
\* a last dimension of 2, holding for every ray other than the zero vector
\* the longitude atan2(x, z) and the latitude asin(y) of the ray divided by
\* its length: (1, 0, 0) and every positive multiple of it give (pi/2, 0),
\* (0, 1, 0) gives (0, pi/2), (-1, 0, 0) gives (-pi/2, 0), (0, -1, 0)
\* gives (0, -pi/2); the longitude lies in [-pi, pi] on the side of x
\* (for x # 0 within pi/2 of 0 exactly when z > 0; for x = 0 it is 0, or
\* pi when z < 0), the latitude in [-pi/2, pi/2] on the side of y; and a ray lengthened by a positive factor gives the
\* same pair (within 1e-6).
C11_LonLat ==
  \A i \in CallsOf("xyz2lonlat") :
    \A xyz \in { hist[i].args }, out \in { hist[i].out.val } :
      /\ hist[i].out.exc = "none"
      /\ DOMAIN out = DOMAIN xyz
      /\ \A r \in DOMAIN xyz :
           /\ DOMAIN out[r] = DOMAIN xyz[r]
           /\ \A j \in DOMAIN xyz[r] :
                \A v \in { xyz[r][j] }, o \in { out[r][j] } :
                  /\ Len(o) = 2
                  /\ (v[1].m # 0 \/ v[2].m # 0 \/ v[3].m # 0) =>
                       /\ IsFinite(o[1]) /\ IsFinite(o[2])
                       /\ FLe(FAbs(o[1]), FPi) /\ FLe(FAbs(o[2]), FHalfPi)
                       /\ FSign(o[2]) = FSign(v[2])
                       /\ v[1].m # 0 => FSign(o[1]) = FSign(v[1])
                       /\ v[1].m = 0 =>
                            o[1] = IF v[3].m < 0 THEN FPi ELSE FZero
                       /\ v[1].m # 0 =>
                            (v[3].m > 0 <=> FLt(FAbs(o[1]), FHalfPi))
                       /\ (v[2].m = 0 /\ v[3].m = 0) =>
                            o = << IF v[1].m > 0 THEN FHalfPi
                                   ELSE FNeg(FHalfPi), FZero >>
                       /\ (v[1].m = 0 /\ v[3].m = 0) =>
                            o = << FZero, IF v[2].m > 0 THEN FHalfPi
                                          ELSE FNeg(FHalfPi) >>
                       /\ (v[2].m = 0 /\ v[1] = v[3] /\ v[1].m > 0) =>
                            Near(o[1], FQuarterPi)
                       /\ (v[1].m = 0 /\ v[2] = v[3] /\ v[2].m > 0) =>
                            Near(o[2], FQuarterPi)
                       /\ NearPair(o, out[1][j])

\* xyz2lonlat was called with the rays (1, 0, 0) and (2, 0, 0), and gave
\* (pi/2, 0) for both
C11_Witness ==
  \E i \in CallsOf("xyz2lonlat") :
    /\ hist[i].args[1][1] = << FromInt(1), FZero, FZero >>
    /\ hist[i].args[2][1] = << FromInt(2), FZero, FZero >>
    /\ hist[i].out.val[1][1] = << FHalfPi, FZero >>
    /\ hist[i].out.val[2][1] = << FHalfPi, FZero >>

\* C12: lonlat2XY maps the longitude q * pi/4 to X = (q/8 + 0.5) * (W - 1)
\* and the latitude r * pi/4 to Y = (r/4 + 0.5) * (H - 1), exactly and
\* with no modulo: (0, 0) goes to the centre ((W - 1)/2, (H - 1)/2),
\* (-pi, -pi/2) to (0, 0), (pi, -pi/2) to (W - 1, 0), and the longitude
\* 2 pi to X = 1.5 * (W - 1), beyond the right edge, not back to where the
\* longitude 0 goes.
C12_PixelCoordinates ==
  \A i \in CallsOf("lonlat2XY") :
    \A ll \in { hist[i].args[1][1][1] }, H \in { hist[i].args[2][1] },
       W \in { hist[i].args[2][2] }, XY \in { hist[i].out.val[1][1] } :
      /\ hist[i].out.exc = "none"
      /\ \A q \in LonSteps :
           ll[1] = AngleOf(q) => XY[1] = MkF((q + 4) * (W - 1), -3)
      /\ \A r \in LatSteps :
           ll[2] = AngleOf(r) => XY[2] = MkF((r + 2) * (H - 1), -2)
      /\ ll = << FZero, FZero >> =>
           XY = << FDiv(FromInt(W - 1), FromInt(2)),
                   FDiv(FromInt(H - 1), FromInt(2)) >>
      /\ ll = << FNeg(FPi), FNeg(FHalfPi) >> => XY = << FZero, FZero >>
      /\ ll = << FPi, FNeg(FHalfPi) >> => XY = << FromInt(W - 1), FZero >>
      /\ ll[1] = FTwoPi =>
           /\ XY[1] = FMul(FDiv(FromInt(3), FromInt(2)), FromInt(W - 1))
           /\ W > 1 => FLt(FromInt(W - 1), XY[1])

\* lonlat2XY was called with the longitude 2 pi for an image 360 wide, and
\* gave X = 538.5
C12_Witness ==
  \E i \in CallsOf("lonlat2XY") :
    /\ hist[i].args[1][1][1][1] = FTwoPi
    /\ hist[i].args[2] = << 180, 360 >>
    /\ hist[i].out.val[1][1][1] = MkF(1077, -1)

\* the positions (row, column) of an array of shape (n, m, ...)
Positions(a) == { << i, j >> : i \in DOMAIN a, j \in 1..Len(a[1]) }

\* C13: a zero-length ray is no error anywhere: xyz2lonlat raises nothing
\* and returns an array of the input's leading dimensions with values
\* that are not finite where the ray has no length, and finite values
\* elsewhere; lonlat2XY raises nothing and hands on a value that is not
\* finite wherever it is given one; apply_transformations_and_remap, its
\* coordinates not-a-number for such a ray, raises nothing and returns for
\* every ray a pixel of three values in 0 .. 255, the same pixel whenever
\* it is called again with the same arguments.
C13_Degenerate ==
  /\ \A i \in CallsOf("xyz2lonlat") :
       \A xyz \in { hist[i].args }, out \in { hist[i].out } :
         /\ out.exc = "none"
         /\ Positions(out.val) = Positions(xyz)
         /\ \A p \in Positions(xyz) :
              /\ Len(out.val[p[1]][p[2]]) = 2
              /\ \A c \in 1..2 :
                   IsFinite(out.val[p[1]][p[2]][c])
                     <=> xyz[p[1]][p[2]] # ZeroRay
  /\ \A i \in CallsOf("lonlat2XY") :
       \A lonlat \in { hist[i].args[1] }, out \in { hist[i].out } :
         /\ out.exc = "none"
         /\ Positions(out.val) = Positions(lonlat)
         /\ \A p \in Positions(lonlat) : \A c \in 1..2 :
              ~IsFinite(lonlat[p[1]][p[2]][c])
                => ~IsFinite(out.val[p[1]][p[2]][c])
  /\ \A i \in CallsOf("apply_transformations_and_remap") :
       \A xyz \in { hist[i].args[1] }, out \in { hist[i].out } :
         /\ out.exc = "none"
         /\ Positions(out.val.px) = Positions(xyz)
         /\ \A p \in Positions(xyz) :
              /\ Len(out.val.px[p[1]][p[2]]) = 3
              /\ \A ch \in 1..3 : out.val.px[p[1]][p[2]][ch] \in 0..255
         /\ \A j \in CallsOf("apply_transformations_and_remap") :
              hist[j].args = hist[i].args => hist[j].out = out

\* the resampling step was called twice with the same zero-length ray, and
\* returned a pixel both times
C13_Witness ==
  /\ Len(hist) = 2
  /\ hist[1].op = "apply_transformations_and_remap"
  /\ hist[2] = hist[1]
  /\ hist[1].args[1] = << << ZeroRay >> >>
  /\ hist[1].args[4] = "INTER_LANCZOS4"
  /\ hist[1].out.exc = "none"
  /\ Len(hist[1].out.val.px[1][1]) = 3

\* the image src repeated n times along both axes: the pixel of row r and
\* column c is the pixel of src of row r modulo H and column c modulo W
Periodic(src, n) ==
  [shape |-> << n * src.shape[1], n * src.shape[2], src.shape[3] >>,
   dtype |-> src.dtype,
   px    |-> [r \in 1..(n * src.shape[1]) |->
               [c \in 1..(n * src.shape[2]) |->
                 src.px[((r - 1) % src.shape[1]) + 1]
                       [((c - 1) % src.shape[2]) + 1]]]]

\* C14: with each of the four interpolation selectors, a sample at (X, Y),
\* inside the source image or up to MaxBeyond pixels beyond any edge, is
\* the sample at (X + 4 W, Y + 4 H) of the source repeated 9 times along
\* both axes, where every tap of the neighbourhood lies inside: a tap in a
\* column outside [0, W - 1] reads the column modulo W, a tap in a row
\* outside [0, H - 1] the row modulo H.  For the nearest-neighbour
\* selector that is the pixel of row round(Y) modulo H and column round(X)
\* modulo W.
C14_Wraparound ==
  \A i \in CallsOf("cv2.remap") :
    \A src \in { hist[i].args[1] }, XY \in { hist[i].args[2][1][1] },
       interp \in { hist[i].args[3] }, out \in { hist[i].out } :
      /\ out.exc = "none"
      /\ out.val.px[1][1] =
           RemapPixel(Periodic(src, 9),
                      FAdd(XY[1], FromInt(4 * src.shape[2])),
                      FAdd(XY[2], FromInt(4 * src.shape[1])), interp)
      /\ interp = "INTER_NEAREST" =>
           out.val.px[1][1] =
             src.px[(FRound(XY[2]) % src.shape[1]) + 1]
                   [(FRound(XY[1]) % src.shape[2]) + 1]

\* a bicubic sample was taken a pixel and a half to the left of and above
\* the 3 x 4 panorama
C14_Witness ==
  \E i \in CallsOf("cv2.remap") :
    /\ hist[i].args[1] = ImgGradient
    /\ hist[i].args[2][1][1] = << MkF(-3, -1), MkF(-3, -1) >>
    /\ hist[i].args[3] = "INTER_CUBIC"
    /\ hist[i].out.exc = "none"
    /\ hist[i].out.val.px[1][1] =
         RemapPixel(ImgGradient, MkF(5, -1), MkF(3, -1), "INTER_CUBIC")

\* an image with at least two pixels of different colour
NonUniform(img) ==
  \E r1 \in 1..img.shape[1], r2 \in 1..img.shape[1] :
    \E c1 \in 1..img.shape[2], c2 \in 1..img.shape[2] :
      img.px[r1][c1] # img.px[r2][c2]

\* two calls of get_perspective that differ in THETA and in nothing else
OnlyThetaDiffers(a, b) ==
  a.THETA # b.THETA /\ a = [b EXCEPT !.THETA = a.THETA]

ColumnsDiffer(img) ==
  \A r1 \in 1..img.shape[1], r2 \in 1..img.shape[1] :
    \A c1 \in 1..img.shape[2], c2 \in 1..img.shape[2] :
      c1 # c2 => img.px[r1][c1] # img.px[r2][c2]

\* the colour depends on the row alone
RowsOnly(img) ==
  \A r \in 1..img.shape[1] :
    \A c1 \in 1..img.shape[2], c2 \in 1..img.shape[2] :
      img.px[r][c1] = img.px[r][c2]

ProfiledStep ==
  /\ hist' # hist
  /\ hist'[Len(hist')].op \in { "profile", "profile_block" }

\* the name the documentation gives the entry of the call rec: the name
\* given, and the qualified name of the function when none is given
DocumentedName(rec) ==
  IF rec.op = "profile_block" THEN rec.args[1]
  ELSE IF rec.args[1].none THEN rec.args[2].full
  ELSE rec.args[1].str

\* the step appends one entry, of the name documented for the call rec and
\* of a duration that is not negative, and what the body returned or
\* raised reaches the caller
RecordsOne(rec) ==
  /\ Len(stats'.entries) = Len(stats.entries) + 1
  /\ SubSeq(stats'.entries, 1, Len(stats.entries)) = stats.entries
  /\ stats'.entries[Len(stats'.entries)].name = DocumentedName(rec)
  /\ stats'.entries[Len(stats'.entries)].duration >= 0
  /\ stats'.enabled = stats.enabled

\* C16: while the global statistics are enabled, every call of a function
\* wrapped by profile(name) and every execution of a profile_block(name)
\* body appends exactly one entry of that operation name (the qualified
\* function name when no name is given) and of a non-negative duration,
\* also when the body raises, and the exception or the return value
\* reaches the caller unchanged; while they are disabled, no call appends
\* an entry.
C16_OneEntryPerCall ==
  [][ProfiledStep =>
       /\ hist'[Len(hist')].out = hist'[Len(hist')].args[Len(hist'[Len(hist')].args)]
       /\ stats.enabled => RecordsOne(hist'[Len(hist')])
       /\ ~stats.enabled => stats' = stats]_vars

\* the call the step makes, if it makes one
Called(op) == hist' # hist /\ hist'[Len(hist')].op = op

\* C18: add_entry appends exactly one entry when the statistics are
\* enabled and leaves the entries as they are when disabled; clear and
\* reset_profiling_stats empty the entries in place (of the same object)
\* and leave the enabled flag as it is; get_profiling_stats always returns
\* the one global instance, so that a reference obtained before
\* reset_profiling_stats shows the emptied entries afterwards.
C18_EntriesAndInstance ==
  [][/\ Called("add_entry") =>
          /\ stats.enabled =>
               stats'.entries =
                 Append(stats.entries,
                        [name |-> hist'[Len(hist')].args[1],
                         duration |-> hist'[Len(hist')].args[2]])
          /\ ~stats.enabled => stats'.entries = stats.entries
          /\ stats'.enabled = stats.enabled
     /\ (Called("clear") \/ Called("reset_profiling_stats")) =>
          /\ stats'.entries = << >>
          /\ stats'.enabled = stats.enabled
          /\ refs'.global = refs.global
          /\ \A i \in DOMAIN refs.held :
               Deref(stats', refs', refs.held[i]).entries = << >>
     /\ Called("get_profiling_stats") =>
          /\ hist'[Len(hist')].out.val = refs.global
          /\ \A i \in DOMAIN refs'.held : refs'.held[i] = refs'.held[1]
          /\ stats' = stats]_vars

\* a reference was obtained, an entry added, and the statistics reset: the
\* reference shows no entries
C18_Witness ==
  /\ stats.enabled
  /\ Len(hist) = 3
  /\ hist[1].op = "get_profiling_stats"
  /\ hist[2].op = "add_entry"
  /\ hist[3].op = "reset_profiling_stats"
  /\ Deref(stats, refs, refs.held[1]).entries = << >>

\* the environment holds '1', 'true' or 'yes', in whatever case, at the key
EnabledBy(e) ==
  /\ e.set
  /\ e.value \in { << "1" >>, << "t", "r", "u", "e" >>,
                   << "T", "R", "U", "E" >>, << "Y", "e", "s" >> }

\* is_profiling_enabled() is true exactly when the value of the variable,
\* lower-cased, is '1', 'true' or 'yes'
AnswersByEnviron ==
  Called("is_profiling_enabled") =>
    hist'[Len(hist')].out = Ok(EnabledBy(environ))

CountOf(name) ==
  Cardinality({ i \in DOMAIN stats.entries : stats.entries[i].name = name })

\* C20: with profiling enabled before the package is imported and the
\* statistics reset, calls of Equirectangular.get_perspective are recorded
\* in the global statistics: the entries are not empty afterwards, and
\* 'get_perspective', 'generate_3d_coordinates' and
\* 'apply_transformations_and_remap' each have as many entries as
\* get_perspective was called.
C20_PerspectiveRecorded ==
  (/\ stats.enabled
   /\ CallsOf("get_perspective") # { }
   /\ \A i \in CallsOf("get_perspective") : hist[i].out.exc = "none")
    => /\ stats.entries # << >>
       /\ \A name \in { "get_perspective", "generate_3d_coordinates",
                        "apply_transformations_and_remap" } :
            CountOf(name) = Cardinality(CallsOf("get_perspective"))

\* the durations stored under name, in order
StoredDurations(name) ==
  [i \in DOMAIN SelectSeq(stats.entries, LAMBDA en : en.name = name) |->
     SelectSeq(stats.entries, LAMBDA en : en.name = name)[i].duration]

\* the sum of the first i of the durations, without rounding
RECURSIVE ExactSum(_, _)
ExactSum(durations, i) ==
  IF i = 0 THEN F64Zero
  ELSE DyAdd(ExactSum(durations, i - 1), durations[i])

\* n times x, without rounding
RECURSIVE Times(_, _)
Times(x, n) == IF n = 0 THEN F64Zero ELSE DyAdd(Times(x, n - 1), x)

\* k units in the last place of the float x, and k halves of one
Ulps(k, x) == [neg |-> FALSE, m |-> Trim(Bin(k, 8)), e |-> x.e]

HalfUlps(k, x) == [neg |-> FALSE, m |-> Trim(Bin(k, 8)), e |-> x.e - 1]

NonNegative(d) == ~d.neg \/ d.m = << >>

\* a <= b and abs(a - b) <= c, without rounding
DyLe(a, b) == NonNegative(DyAdd(b, F64Neg(a)))

Within(a, b, c) ==
  /\ DyLe(DyAdd(a, F64Neg(b)), c)
  /\ DyLe(DyAdd(b, F64Neg(a)), c)

\* the sum of the counts of all_stats
RECURSIVE SumOfCounts(_, _)
SumOfCounts(all_stats, names) ==
  IF names = { } THEN 0
  ELSE LET name == CHOOSE x \in names : TRUE
       IN  all_stats[name].count + SumOfCounts(all_stats, names \ { name })

\* what get_stats(name) and get_all_stats() report whatever the rounding:
\* the count, the smallest and the largest duration, zeros when no entry
\* has the name, a total and a mean that are the sum and the quotient up
\* to the rounding of the floats, and one key for each name stored
FiguresOf(st, durations) ==
  /\ st.count = Len(durations)
  /\ durations = << >> =>
       st = [count |-> 0, total |-> F64Zero, mean |-> F64Zero,
             min |-> F64Zero, max |-> F64Zero]
  /\ durations # << >> =>
       /\ \E i \in DOMAIN durations : durations[i] = st.min
       /\ \E i \in DOMAIN durations : durations[i] = st.max
       /\ \A i \in DOMAIN durations :
            ~F64Lt(durations[i], st.min) /\ ~F64Lt(st.max, durations[i])
       /\ Within(st.total, ExactSum(durations, Len(durations)),
                 HalfUlps(st.count - 1, st.total))
       /\ Within(Times(st.mean, st.count), st.total,
                 HalfUlps(st.count, st.mean))
       /\ Len(durations) = 1 =>
            st.total = durations[1] /\ st.mean = durations[1]

AllFigures(all_stats) ==
  /\ DOMAIN all_stats = { stats.entries[i].name : i \in DOMAIN stats.entries }
  /\ SumOfCounts(all_stats, DOMAIN all_stats) = Len(stats.entries)

\* get_stats(name): what get_all_stats() maps the name to, for a name that
\* is one of its keys
StatsOf(all_stats, name, build) ==
  IF name \in DOMAIN all_stats THEN all_stats[name]
  ELSE get_stats(stats, name, build)

\* C17 as stated: after any sequence of add_entry and clear calls,
\* get_stats(name) reports the number of stored entries of that name, the
\* sum of their durations, mean = total/count, their smallest and largest
\* duration, so that min <= mean <= max, and five zeros when no entry has
\* the name; get_all_stats has one key for each stored name, mapped to
\* get_stats of that name, so that the counts sum to the number of stored
\* entries.
C17_Statistics ==
  \A build \in SumBuilds :
    \A all_stats \in { get_all_stats(stats, build) } :
      /\ AllFigures(all_stats)
      /\ \A name \in EntryNames :
           \A st \in { StatsOf(all_stats, name, build) } :
             /\ FiguresOf(st, StoredDurations(name))
             /\ ~F64Lt(st.mean, st.min) /\ ~F64Lt(st.max, st.mean)

\* C17, amended: as stated, with total and mean the float sum and the
\* float quotient (within count half units in the last place of the sum
\* and of total/count), and with the mean within count units in the last
\* place of the interval from min to max instead of inside it.
C17_StatisticsRounded ==
  \A build \in SumBuilds :
    \A all_stats \in { get_all_stats(stats, build) } :
      /\ AllFigures(all_stats)
      /\ \A name \in EntryNames :
           \A st \in { StatsOf(all_stats, name, build) } :
             /\ FiguresOf(st, StoredDurations(name))
             /\ DyLe(DyAdd(st.min, F64Neg(Ulps(st.count, st.min))), st.mean)
             /\ DyLe(st.mean, DyAdd(st.max, Ulps(st.count, st.max)))

\* three entries of 0.1 second under one name, whose mean is above 0.1
C17_Witness ==
  /\ Len(stats.entries) = 3
  /\ \A i \in 1..3 :
       stats.entries[i] =
         [name |-> "op1", duration |-> F64(53687091, 26843546, -56)]
  /\ F64Lt(get_stats(stats, "op1", "left_to_right").max,
           get_stats(stats, "op1", "left_to_right").mean)
\* the calls of load_image so far
Loads == { i \in DOMAIN hist : hist[i].op = "load_image" }

\* a numpy array, and not None
IsArray(v) == DOMAIN v = { "shape", "dtype", "px" }

\* the file cannot be decoded by the decoder of the installation
Undecodable(node, decoder) ==
  IF decoder = "OpenCV" THEN node.data.format \notin { "jpeg", "png" }
  ELSE node.data.format # "jpeg"

\* C24: load_image returns a decoded array or raises and never returns
\* None; it raises FileNotFoundError for a path that does not exist,
\* ValueError for one that is not a regular file, ValueError for a file
\* that cannot be decoded and IOError for a file that cannot be read, with
\* TurboJPEG and with OpenCV; it checks the existence before the file type
\* and the file type before any read or decode.
C24_LoadImage ==
  \A i \in Loads :
    \A node \in { host.files[hist[i].args] } :
      /\ hist[i].out.exc = "none" =>
           /\ IsArray(hist[i].out.val)
           /\ IsArray(node.data.pixels)
           /\ hist[i].out.val = node.data.pixels
      /\ hist[i].calls[1] = "exists"
      /\ \A k \in DOMAIN hist[i].calls :
           hist[i].calls[k] \in { "open", "imread" } =>
             k = 3 /\ hist[i].calls[2] = "is_file"
      /\ node.kind = "absent" => hist[i].out.exc = "FileNotFoundError"
      /\ node.kind = "dir" => hist[i].out.exc = "ValueError"
      /\ host.decoder \in { "TurboJPEG", "OpenCV" } /\ node.kind = "file" =>
           /\ ~node.readable => hist[i].out.exc = "IOError"
           /\ node.readable /\ Undecodable(node, host.decoder) =>
                hist[i].out.exc = "ValueError"

\* the runs of the command so far
Runs == { i \in DOMAIN hist : hist[i].op = "main" }

\* the i-th step is a call of get_perspective that refused its arguments
RefusedView(i) ==
  /\ hist[i].out.steps # << >>
  /\ hist[i].out.steps[Len(hist[i].out.steps)] = "get_perspective"
  /\ hist[i].out.exc = "ClickException"
  /\ hist[i].out.message[1] = "Invalid parameter: "

\* C21: _calculate_dimensions returns (1920, 1080) when neither width nor
\* height is given, completes a single dimension at 16:9 with truncation
\* (1600 wide gives 900 high), returns both unchanged when both are given,
\* and raises ValueError whenever the dimensions are invalid: every pair
\* it returns has width > 0 and height > 0, so that the command never
\* passes a dimension that is not positive to get_perspective.
C21_Dimensions ==
  /\ \A i \in CallsOf("_calculate_dimensions") :
       \A w \in { hist[i].args.width }, h \in { hist[i].args.height },
          out \in { hist[i].out } :
         /\ out.exc \in { "none", "ValueError" }
         /\ w.none /\ h.none => out = Ok(<< 1920, 1080 >>)
         /\ ~w.none /\ w.int <= 0 => out.exc = "ValueError"
         /\ ~h.none /\ h.int <= 0 => out.exc = "ValueError"
         /\ out.exc = "none" =>
              /\ out.val[1] > 0 /\ out.val[2] > 0
              /\ ~w.none => out.val[1] = w.int
              /\ ~h.none => out.val[2] = h.int
              /\ w.none /\ ~h.none =>
                   /\ 9 * out.val[1] <= 16 * h.int
                   /\ 16 * h.int < 9 * (out.val[1] + 1)
              /\ h.none /\ ~w.none =>
                   /\ 16 * out.val[2] <= 9 * w.int
                   /\ 9 * w.int < 16 * (out.val[2] + 1)
         /\ w = Some(1600) /\ h.none => out = Ok(<< 1600, 900 >>)
  /\ \A i \in Runs : ~RefusedView(i)

\* the documented ranges of the options of the command
CliInRange(a) ==
  [fov |-> 1 <= a.fov /\ a.fov <= 180,
   theta |-> -180 <= a.theta /\ a.theta <= 180,
   phi |-> -90 <= a.phi /\ a.phi <= 90,
   quality |-> 1 <= a.quality /\ a.quality <= 100]

\* the run ended with a status that is not 0 and with this message,
\* without a step on the files or the library and with the files as they
\* were
RejectedWith(rec, text) ==
  /\ ExitCode(rec.out.exc) # 0
  /\ rec.out.message = << text >>
  /\ rec.out.steps = << >>
  /\ host.files = rec.before

Range(seq) == { seq[k] : k \in DOMAIN seq }

Last(seq) == seq[Len(seq)]

\* what the constructor gave the run
LoadOf(rec) == Equirectangular(rec.args.input_path, rec.before, host.decoder)

\* the run reached the try block
Converting(rec) ==
  rec.out.steps # << >> /\ "load_image" \in Range(rec.out.steps)

\* the output file holds an encoded image written by this run
Written(rec) ==
  /\ host.files[rec.args.output_path].kind = "file"
  /\ host.files[rec.args.output_path].data.format = "jpeg"
  /\ DOMAIN host.files[rec.args.output_path].data.pixels = { "of", "quality" }
  /\ host.files[rec.args.output_path].data.pixels.quality = rec.args.quality

\* C23: every failure while loading, projecting or saving ends the
\* command with a status that is not 0 and a classified message: 'File not
\* found' for a FileNotFoundError, 'Invalid parameter' for a ValueError
\* raised by the library, 'Processing failed' for any other exception;
\* the success mark is printed and the status is 0 only after the write
\* of the image reported success, so that status 0 implies that the
\* output file was written.
C23_Classified ==
  \A i \in Runs :
    \A rec \in { hist[i] } :
      /\ (Converting(rec) /\ rec.out.exc # "none") =>
           /\ ExitCode(rec.out.exc) # 0
           /\ rec.out.message[1] \in
                { "File not found: ", "Invalid parameter: ",
                  "Processing failed: " }
      /\ Converting(rec) =>
           \A load \in { LoadOf(rec) } :
             /\ load.exc = "FileNotFoundError" =>
                  rec.out.message[1] = "File not found: "
             /\ load.exc = "ValueError" =>
                  rec.out.message[1] = "Invalid parameter: "
             /\ load.exc \notin { "none", "FileNotFoundError", "ValueError" }
                  => rec.out.message[1] = "Processing failed: "
             /\ load.exc # "none" => Last(rec.out.steps) = "load_image"
      /\ (Converting(rec) /\ Last(rec.out.steps) = "get_perspective") =>
           rec.out.message[1] = "Invalid parameter: "
      /\ (Converting(rec) /\ Last(rec.out.steps) = "imwrite"
            /\ ~Written(rec)) =>
           rec.out.message[1] = "Processing failed: "
      /\ (\/ "U+2713" \in Range(rec.out.echo)
          \/ "U+2713 Successfully converted image" \in Range(rec.out.echo))
           <=> ExitCode(rec.out.exc) = 0
      /\ ExitCode(rec.out.exc) = 0 =>
           /\ Last(rec.out.steps) = "imwrite"
           /\ Written(rec)

\* a run whose write of the image reported failure (the output file
\* exists and cannot be written) and that ended with 'Processing failed'
\* and status 1
C23_Witness ==
  \E i \in Runs :
    /\ hist[i].before["views/view.jpg"].kind = "file"
    /\ ~hist[i].before["views/view.jpg"].writable
    /\ hist[i].out.steps # << >>
    /\ Last(hist[i].out.steps) = "imwrite"
    /\ hist[i].out.message =
         << "Processing failed: ", "Failed to save output image" >>
    /\ ExitCode(hist[i].out.exc) = 1

\* two vectors agree within 1e-6 in every component
NearVec(u, v) == \A s \in 1..3 : Near(u[s], v[s])

\* the turn about the y axis by THETA alone
YawOf(THETA) == compute_rotation_matrices(THETA, 0)

Normalisable(ray) ==
  /\ IsFinite(Dot3(ray, ray))
  /\ FLt(FZero, Dot3(ray, ray))
  /\ IsFinite(xyz2lonlat(ray)[1])
  /\ IsFinite(xyz2lonlat(ray)[2])

\* C26: for every output size and every FOV that the validation accepts,
\* each ray that generate_3d_coordinates makes from the inverse of the
\* camera matrix has a third component of exactly 1, the bottom row of the
\* inverse being (0, 0, 1); no ray has length 0, and the normalisation in
\* xyz2lonlat does not divide by 0, for the ray as it is and as the
\* rotation turns it; the field has the shape (height, width, 3), with x
\* increasing along the columns and y along the rows.
C26_RayField ==
  \A i \in CallsOf("generate_3d_coordinates") :
    \A width \in { hist[i].args[1] }, height \in { hist[i].args[2] },
       K_inv \in { hist[i].args[3] }, xyz \in { hist[i].out.val } :
      /\ K_inv[3] = << FZero, FZero, FOne >>
      /\ DOMAIN xyz = 1..height
      /\ \A r \in 1..height :
           /\ DOMAIN xyz[r] = 1..width
           /\ \A c \in 1..width :
                /\ Len(xyz[r][c]) = 3
                /\ xyz[r][c][3] = FOne
                /\ Normalisable(xyz[r][c])
                /\ Normalisable(MatVec(CompR, xyz[r][c]))
                /\ c < width => FLt(xyz[r][c][1], xyz[r][c + 1][1])
                /\ r < height => FLt(xyz[r][c][2], xyz[r + 1][c][2])
                /\ c < width => xyz[r][c][2] = xyz[r][c + 1][2]
                /\ r < height => xyz[r][c][1] = xyz[r + 1][c][1]
      /\ xyz = GpRays(width, height, K_inv)

\* the ray field of the widest view at FOV = 180, where the focal length
\* is smallest: the rays of a row differ in x
C26_Witness ==
  \E i \in CallsOf("generate_3d_coordinates") :
    /\ hist[i].args[1] = MaxWidth
    /\ hist[i].args[2] = MaxOut
    /\ hist[i].out.val[1][1][3] = FOne
    /\ FLt(FromInt(1000000), hist[i].out.val[1][MaxWidth][1])

\* a <= x <= b
Between(a, x, b) == FLe(a, x) /\ FLe(x, b)

\* C27: for every longitude in [-pi, pi], every latitude in
\* [-pi/2, pi/2] and every source of height >= 1 and width >= 1,
\* lonlat2XY gives 0 <= X <= width - 1 and 0 <= Y <= height - 1: the
\* coordinates are not negative and are below the width and the height,
\* so that the coordinates get_perspective hands to the resampler are on
\* the pixel grid of the source.
C27_OnTheGrid ==
  \A i \in CallsOf("lonlat2XY") :
    \A H \in { hist[i].args[2][1] }, W \in { hist[i].args[2][2] } :
      \A k \in DOMAIN hist[i].args[1] :
        \A ll \in { hist[i].args[1][k][1] },
           XY \in { hist[i].out.val[k][1] } :
          (/\ Between(FNeg(FPi), ll[1], FPi)
           /\ Between(FNeg(FHalfPi), ll[2], FHalfPi)
           /\ H >= 1 /\ W >= 1)
            => /\ Between(FZero, XY[1], FromInt(W - 1))
               /\ Between(FZero, XY[2], FromInt(H - 1))
               /\ FLt(XY[1], FromInt(W))
               /\ FLt(XY[2], FromInt(H))

\* the ray that looks backwards, (0, 0, -1), has the longitude pi and goes
\* to the last column of a source 720 wide
C27_Witness ==
  \E i \in CallsOf("lonlat2XY") :
    /\ hist[i].args[1][1][1][1] = FPi
    /\ hist[i].args[2] = << 360, 720 >>
    /\ hist[i].out.val[1][1][1] = FromInt(719)
    /\ \E k \in DOMAIN hist[i].args[1] :
         hist[i].args[1][k][1] = xyz2lonlat(<< FZero, FZero, FNeg(FOne) >>)

\* the parameters out of range, in the order of the checks
Violations(a) ==
  SelectSeq(<< "FOV", "THETA", "PHI", "height", "width" >>,
            LAMBDA name : OutOfRange(a, name))

\* a refusal by a range check: a ValueError that names a parameter
RangeRefusal(out) ==
  /\ out.exc = "ValueError"
  /\ out.text[1] \in ParamNames

\* C28: validate_perspective_params and the checks at the head of
\* get_perspective are equivalent: on the same arguments one raises
\* exactly when the other does, with the same message, and with several
\* parameters out of range both report only the first one in the order
\* FOV, THETA, PHI, height, width.
C28_SameValidation ==
  \A i \in CallsOf("get_perspective"),
     j \in CallsOf("validate_perspective_params") :
    \A g \in { hist[i].out }, v \in { hist[j].out }, a \in { hist[j].args } :
      hist[i].args = a
        => /\ RangeRefusal(g) <=> v.exc # "none"
           /\ v.exc # "none" => g = v
           /\ v.exc # "none" <=> Violations(a) # << >>
           /\ v.exc # "none" => v.text[1] = Violations(a)[1]
           /\ RangeRefusal(g) => g.text[1] = Violations(a)[1]

\* both calls on FOV = 200 with the height and the width 0: both report
\* FOV, and on height = width = 0 alone both report the height
C28_Witness ==
  \E i \in CallsOf("get_perspective"),
     j \in CallsOf("validate_perspective_params") :
    /\ hist[i].args = hist[j].args
    /\ hist[j].args.height = 0 /\ hist[j].args.width = 0
    /\ InRange([hist[j].args EXCEPT !.height = 1, !.width = 1])
    /\ hist[i].out = hist[j].out
    /\ hist[j].out.exc = "ValueError"
    /\ hist[j].out.text[1] = "height"

\* the names of the entries, in their order
NamesOf(entries) == [k \in DOMAIN entries |-> entries[k].name]

\* the completions so far, and the start of the operation that completed
Completions == CallsOf("complete")

StartOf(i) == hist[hist[i].at]

\* C29: enabled is read twice for a profiled operation, when it starts
\* (by wrapper, or by profile_block) and when it completes (by
\* add_entry), and an entry is appended only if it was true both times:
\* an operation started with profiling disabled records nothing even if
\* profiling is enabled before it completes, and one started with
\* profiling enabled records nothing if profiling is disabled before it
\* completes.
C29_ReadTwice ==
  \A i \in Completions :
    \A c \in { hist[i] }, s \in { StartOf(i) } :
      /\ s.op = "start" /\ s.args[3] = c.args[2]
      /\ s.after = s.before
      /\ IF s.enabled /\ c.enabled
         THEN c.after = Append(c.before, [name |-> c.args[2],
                                          duration |-> c.args[3]])
         ELSE c.after = c.before

\* an operation that started disabled and completed enabled, and one that
\* started enabled and completed disabled: neither left an entry
C29_Witness ==
  /\ \E i \in Completions :
       /\ ~StartOf(i).enabled /\ hist[i].enabled
       /\ hist[i].after = hist[i].before
  /\ \E i \in Completions :
       /\ StartOf(i).enabled /\ ~hist[i].enabled
       /\ hist[i].after = hist[i].before
  /\ stats.entries = << >>

\* the completions that left an entry
Recorded(i) == hist[i].op = "complete" /\ hist[i].after # hist[i].before

Resets == CallsOf("reset_profiling_stats")

\* the last reset so far, 0 if there was none
LastReset ==
  IF Resets = {} THEN 0 ELSE CHOOSE r \in Resets : \A q \in Resets : q <= r

\* the names of the operations recorded since the last reset, in the
\* order they completed in
RecordedSince ==
  LET Later == SelectSeq([k \in 1..(Len(hist) - LastReset) |-> LastReset + k],
                         Recorded)
  IN  [k \in DOMAIN Later |-> hist[Later[k]].args[2]]

\* C30: an entry is appended when the profiled operation completes, never
\* when it starts, so that the entries are in the order of completion:
\* an operation inside a profile_block or a profiled function completes,
\* and has its entry appended, before the enclosing one, and an operation
\* under way when reset_profiling_stats runs appends its entry after the
\* clear, which leaves the statistics with an entry after the reset
\* though no operation started since.
C30_CompletionOrder ==
  /\ \A i \in CallsOf("start") : hist[i].after = hist[i].before
  /\ NamesOf(stats.entries) = RecordedSince
  /\ \A i \in Completions, j \in Completions :
       (hist[i].at < hist[j].at /\ hist[j].at < i)
         => /\ j < i
            /\ (Recorded(i) /\ Recorded(j) /\ Resets \cap j..i = {})
                 => \E m \in DOMAIN hist[i].after :
                      /\ m < Len(hist[i].after)
                      /\ hist[i].after[m].name = hist[j].args[2]
  /\ \A r \in Resets, i \in Completions :
       (hist[i].at < r /\ r < i /\ StartOf(i).enabled /\ hist[i].enabled)
         => /\ hist[i].after # << >>
            /\ hist[i].after[Len(hist[i].after)].name = hist[i].args[2]
            /\ CallsOf("start") \cap r..i = {}
                 => Len(hist[i].after) <= Cardinality(Completions \cap r..i)

\* a block starts, a profiled function starts inside it and completes,
\* the statistics are reset, and the block completes: the entry of the
\* function was appended first, and after the reset the only entry is the
\* block's
C30_Witness ==
  /\ Len(hist) = 5
  /\ hist[1].op = "start" /\ hist[1].args[2] = "profile_block"
  /\ hist[2].op = "start" /\ hist[2].args[2] = "profile"
  /\ hist[3].op = "complete" /\ hist[3].at = 2
  /\ NamesOf(hist[3].after) = << "test_function" >>
  /\ hist[4].op = "reset_profiling_stats"
  /\ hist[5].op = "complete" /\ hist[5].at = 1
  /\ hist[5].before = << >>
  /\ NamesOf(stats.entries) = << "test_block" >>

====
